---------------------------- MODULE Spec2Model ----------------------------
(***************************************************************************)
(* Matching & Adaptive Scanning Engine.                                    *)
(*                                                                         *)
(*   app/matching.py    MatchingService   (scoring, match orchestration)   *)
(*   app/embeddings.py  EmbeddingService  (cosine similarity)              *)
(*   app/scheduler.py   ScannerScheduler  (scan cycles, scheduled jobs)    *)
(*   app/scrapers/base.py BaseScraper     (fetch with retry, scrape)       *)
(*   app/repo.py        DatabaseRepository (the tables the above use)      *)
(*                                                                         *)
(* Strings are sequences of one-character strings, so that lower(),        *)
(* strip(), substring tests and difflib's ratio are computed, not assumed. *)
(* A letter with a diaeresis is written as the letter followed by ":"      *)
(* inside one element ("a:" is one character).  None and the empty string  *)
(* are both <<>>: the code only ever tests them for truthiness.            *)
(*                                                                         *)
(* Scores are exact rationals in fixed point: a sub-score s is the integer *)
(* s * Unit, a weighted total t is the integer t * 100 * Unit.             *)
(***************************************************************************)
EXTENDS Integers, Sequences, FiniteSets, TLC

VARIABLES
    \* --- scoring one (job, consultant) pair -----------------------------
    sJob,           \* the Job handed to _calculate_match_scores
    sConsultant,    \* the Consultant handed to it
    sJobEmb,        \* job_embedding
    sConsEmb,       \* consultant_embedding
    sScores,        \* the dict it returned
    sPc,            \* "input" | "scored"
    \* --- MatchingService.run_matching ------------------------------------
    jobEmbStore,    \* table job_embeddings: job_id -> [has, vec]
    consEmbStore,   \* table consultant_embeddings: consultant_id -> [has, vec]
    matchTable,     \* table job_consultant_matches: rows in insertion order
    mPc,            \* "idle" | "running" | "returned" | "raised"
    mArgs,          \* the arguments of the run_matching call in progress
    mJobs,          \* jobs: the job ids the call resolved
    mConsultants,   \* consultants: the consultant ids the call resolved
    mIdx,           \* position of the for loop over jobs
    mMatches,       \* matches: what the call has collected to return
    mLog,           \* history: one record per _match_job_to_consultants call
    \* --- ScannerScheduler.run_daily_scan --------------------------------
    cPc,            \* "idle" | "loop" | "sources" | "done" | "failed"
    active_configs, \* the config ids get_active_scanning_configs returned
    cIdx,           \* position of the for loop over active_configs
    override_dict,  \* _scan_with_config: the override rows it was given
    sIdx,           \* position of the for loop over enabled_sources
    jobs_found,     \* _scan_with_config: jobs_found
    matches_generated,       \* _scan_with_config: matches_generated
    total_jobs_found,        \* run_daily_scan: total_jobs_found
    total_matches_generated, \* run_daily_scan: total_matches_generated
    perfLog,        \* table config_performance_log: rows of this cycle
    cAttempted,     \* history: the configs the loop entered, in order
    cResults,       \* history: how each attempted config ended
    cTrace,         \* history: one record per source of the current config
    cFetchAttempts, \* history: attempts fetch_page made in the last scrape
    \* --- the scheduler's executor ----------------------------------------
    instances,      \* job id -> scheduler-started instances executing
    due,            \* job id -> triggers that came due
    started,        \* job id -> instances the scheduler started
    skipped,        \* job id -> due triggers dropped (max instances reached)
    lastEvent,      \* job id -> "none" | "submitted" | "max_instances" | "executed"
    manualScans,    \* run_daily_scan calls in progress from trigger_scan_now
    \* --- ScannerScheduler.optimize_configurations ------------------------
    oPc,            \* "idle" | "running" | "done"
    oConfigs,       \* configs: the config ids get_all_scanning_configs returned
    oIdx,           \* position of the for loop over configs
    oHistory,       \* table config_performance_log: config id -> the
                    \*   quality_score of its rows of the last 30 days
    oFault,         \* the repository call that raises, and for which config
    performance_score,   \* scanning_configs.performance_score per config id
    learning_parameters, \* table learning_parameters, keyed by (name, value)
    oLog,           \* history: one record per _optimize_single_config call
    oRaised,        \* what optimize_configurations raised to its caller
    oRuns,          \* optimize_configurations calls made so far
    \* --- ScannerScheduler._build_scraper_params --------------------------
    bConfig,        \* config: the scanning_configs row, a dict
    bOverride,      \* source_override: None or the override row
    bParams,        \* the dict it returned
    bPc,            \* "input" | "built"
    \* --- BaseScraper.fetch_page, per scraper instance --------------------
    now,            \* the event loop's clock, in seconds
    last_request_time,  \* instance -> self.last_request_time
    rPc,            \* instance -> "ready" | "retry_wait"
    rAttempt,       \* instance -> failed attempts of the fetch_page call in progress
    rWake,          \* instance -> when the wait before the next retry ends
    rRequests,      \* history: instance -> the requests sent, [time, ok]
    \* --- ScannerScheduler.trigger_scan_now --------------------------------
    tConfigId       \* [called, config_id]: its config_id argument, 0 for None

scoreVars == <<sJob, sConsultant, sJobEmb, sConsEmb, sScores, sPc>>
matchVars == <<jobEmbStore, consEmbStore, matchTable, mPc, mArgs, mJobs,
               mConsultants, mIdx, mMatches, mLog>>

scanVars == <<cPc, active_configs, cIdx, override_dict, sIdx, jobs_found,
              matches_generated, total_jobs_found, total_matches_generated,
              perfLog, cAttempted, cResults, cTrace, cFetchAttempts>>
schedVars == <<instances, due, started, skipped, lastEvent, manualScans>>

optVars == <<oPc, oConfigs, oIdx, oHistory, oFault, performance_score,
             learning_parameters, oLog, oRaised, oRuns>>

paramVars == <<bConfig, bOverride, bParams, bPc>>
rateVars == <<now, last_request_time, rPc, rAttempt, rWake, rRequests>>

trigVars == <<tConfigId>>

vars == <<scoreVars, matchVars, scanVars, schedVars, optVars, paramVars, rateVars,
          trigVars>>

----------------------------------------------------------------------------
(* The scan cycle and the scheduler before anything ran                    *)

\* the ids given to add_job in ScannerScheduler.start
ScheduledJobs == {"daily_scan", "weekly_report", "monday_brief", "config_optimization"}

ScanIdle ==
    /\ cPc = "idle"
    /\ active_configs = <<>>
    /\ cIdx = 0
    /\ override_dict = {}
    /\ sIdx = 0
    /\ jobs_found = 0
    /\ matches_generated = 0
    /\ total_jobs_found = 0
    /\ total_matches_generated = 0
    /\ perfLog = <<>>
    /\ cAttempted = <<>>
    /\ cResults = <<>>
    /\ cTrace = <<>>
    /\ cFetchAttempts = 0

SchedIdle ==
    /\ instances = [j \in ScheduledJobs |-> 0]
    /\ due = [j \in ScheduledJobs |-> 0]
    /\ started = [j \in ScheduledJobs |-> 0]
    /\ skipped = [j \in ScheduledJobs |-> 0]
    /\ lastEvent = [j \in ScheduledJobs |-> "none"]
    /\ manualScans = 0

OptIdle ==
    /\ oPc = "idle"
    /\ oConfigs = <<>>
    /\ oIdx = 0
    /\ oHistory = <<>>
    /\ oFault = <<>>
    /\ performance_score = <<>>
    /\ learning_parameters = <<>>
    /\ oLog = <<>>
    /\ oRaised = ""
    /\ oRuns = 0

ParamIdle ==
    /\ bConfig = <<>>
    /\ bOverride = <<>>
    /\ bParams = <<>>
    /\ bPc = "input"

TrigIdle == tConfigId = [called |-> FALSE, config_id |-> 0]

RateIdle ==
    /\ now = 0
    /\ last_request_time = <<>>
    /\ rPc = <<>>
    /\ rAttempt = <<>>
    /\ rWake = <<>>
    /\ rRequests = <<>>

----------------------------------------------------------------------------
(* Fixed point                                                             *)

Unit == 6 * 100
Tenths(n) == n * (Unit \div 10)
FullScale == 100 * Unit

Min(a, b) == IF a <= b THEN a ELSE b
Max(a, b) == IF a >= b THEN a ELSE b

RECURSIVE SumSeq(_)
SumSeq(s) == IF s = <<>> THEN 0 ELSE Head(s) + SumSeq(Tail(s))

Range(s) == { s[i] : i \in DOMAIN s }

\* the element of a singleton set.  A value that is used more than once is
\* bound through a singleton, Only({ f(v) : v \in {e} }), so that e is
\* evaluated once.
Only(S) == CHOOSE x \in S : TRUE

----------------------------------------------------------------------------
(* Python string operations                                                *)

UpperChars == <<"A","B","C","D","E","F","G","H","I","J","K","L","M","N","O",
                "P","Q","R","S","T","U","V","W","X","Y","Z","A:","O:","A*">>
LowerChars == <<"a","b","c","d","e","f","g","h","i","j","k","l","m","n","o",
                "p","q","r","s","t","u","v","w","x","y","z","a:","o:","a*">>

\* str.lower() on one character
LowerChar(c) ==
    IF \E i \in DOMAIN UpperChars : UpperChars[i] = c
    THEN LowerChars[CHOOSE i \in DOMAIN UpperChars : UpperChars[i] = c]
    ELSE c

\* str.lower()
Lower(s) == [i \in DOMAIN s |-> LowerChar(s[i])]

IsSpace(c) == c = " "

\* str.strip()
RECURSIVE LStrip(_)
LStrip(s) == IF s # <<>> /\ IsSpace(Head(s)) THEN LStrip(Tail(s)) ELSE s
RECURSIVE RStrip(_)
RStrip(s) ==
    IF s # <<>> /\ IsSpace(s[Len(s)]) THEN RStrip(SubSeq(s, 1, Len(s) - 1)) ELSE s
Strip(s) == RStrip(LStrip(s))

\* sub in s
Contains(s, sub) ==
    \E i \in 1..(Len(s) - Len(sub) + 1) : SubSeq(s, i, i + Len(sub) - 1) = sub

\* x in list
InList(x, list) == \E i \in DOMAIN list : list[i] = x

\* truthiness of an Optional[str] or a list
Truthy(v) == v # <<>>

\* truthiness of an Optional[OnsiteMode]: "onsite", "remote", "hybrid", or ""
\* for None
HasMode(m) == m # ""

----------------------------------------------------------------------------
(* difflib.SequenceMatcher(None, a, b).ratio(), for strings shorter than   *)
(* 200 characters (no autojunk): 2 * M / T, M the characters in matching   *)
(* blocks, T the two lengths together.                                     *)

\* length of the common run starting at a[i], b[j], inside [i, ahi) x [j, bhi)
RECURSIVE RunLen(_, _, _, _, _, _)
RunLen(a, b, i, j, ahi, bhi) ==
    IF i < ahi /\ j < bhi /\ a[i] = b[j]
    THEN 1 + RunLen(a, b, i + 1, j + 1, ahi, bhi)
    ELSE 0

\* block m = <<i, j, k>> is preferred to block r: longer, or as long and
\* earlier in a, or as long, at the same place in a and not later in b
PreferredBlock(m, r) ==
    \/ m[3] > r[3]
    \/ /\ m[3] = r[3]
       /\ (m[1] < r[1] \/ (m[1] = r[1] /\ m[2] <= r[2]))

\* find_longest_match: the longest block, the earliest in a, then the
\* earliest in b; <<alo, blo, 0>> when nothing matches
FindLongestMatch(a, b, alo, ahi, blo, bhi) ==
    Only({ IF runs = {} THEN <<alo, blo, 0>>
           ELSE IF \A r \in runs : r[3] = 0 THEN <<alo, blo, 0>>
           ELSE CHOOSE m \in runs : \A r \in runs : PreferredBlock(m, r) :
           runs \in { { <<i, j, RunLen(a, b, i, j, ahi, bhi)>> :
                          i \in alo..(ahi - 1), j \in blo..(bhi - 1) } } })

\* get_matching_blocks: the total size of the blocks
RECURSIVE MatchingSize(_, _, _, _, _, _)
MatchingSize(a, b, alo, ahi, blo, bhi) ==
    Only({ IF m[3] = 0 THEN 0
           ELSE m[3]
                + MatchingSize(a, b, alo, m[1], blo, m[2])
                + MatchingSize(a, b, m[1] + m[3], ahi, m[2] + m[3], bhi) :
           m \in { FindLongestMatch(a, b, alo, ahi, blo, bhi) } })

\* ratio() > 0.8, exactly: 2*M/T > 8/10; an empty pair has ratio 1.0
RatioAbove08(a, b) ==
    IF Len(a) + Len(b) = 0 THEN TRUE
    ELSE 2 * MatchingSize(a, b, 1, Len(a) + 1, 1, Len(b) + 1) * 10
            > 8 * (Len(a) + Len(b))

----------------------------------------------------------------------------
(* EmbeddingService.cosine_similarity.  Embeddings are integer vectors     *)
(* whose norms are integers, so that dot / (norm1 * norm2) is a rational   *)
(* the fixed point holds exactly.                                          *)

RECURSIVE Dot(_, _)
Dot(v, w) ==
    IF v = <<>> \/ w = <<>> THEN 0
    ELSE Head(v) * Head(w) + Dot(Tail(v), Tail(w))

\* numpy.linalg.norm, for a vector whose squared length is a perfect square
Norm(v) == CHOOSE r \in 0..Dot(v, v) : r * r = Dot(v, v)

cosine_similarity(vec1, vec2) ==
    IF vec1 = <<>> \/ vec2 = <<>> THEN 0
    ELSE IF Norm(vec1) = 0 \/ Norm(vec2) = 0 THEN 0
    ELSE (Dot(vec1, vec2) * Unit) \div (Norm(vec1) * Norm(vec2))

----------------------------------------------------------------------------
(* MatchingService: the four rule-based sub-scores                         *)

NormList(list) == [i \in DOMAIN list |-> Strip(Lower(list[i]))]

\* the credit (in tenths) the inner loop gives one job skill: the first
\* consultant skill, in list order, that is equal (10) or fuzzy-equal (8)
RECURSIVE SkillCredit(_, _)
SkillCredit(job_skill, consultant_skills_lower) ==
    IF consultant_skills_lower = <<>> THEN 0
    ELSE IF job_skill = Head(consultant_skills_lower) THEN 10
    ELSE IF RatioAbove08(job_skill, Head(consultant_skills_lower)) THEN 8
    ELSE SkillCredit(job_skill, Tail(consultant_skills_lower))

_calculate_skills_match(job_skills, consultant_skills) ==
    IF ~Truthy(job_skills) THEN Unit
    ELSE IF ~Truthy(consultant_skills) THEN 0
    ELSE LET job_skills_lower == NormList(job_skills)
             consultant_skills_lower == NormList(consultant_skills)
             matches == SumSeq([i \in DOMAIN job_skills_lower |->
                            SkillCredit(job_skills_lower[i], consultant_skills_lower)])
         IN  Min(Unit, (matches * (Unit \div 10)) \div Len(job_skills_lower))

senior_terms == << <<"s","e","n","i","o","r">>, <<"l","e","a","d">>,
                   <<"p","r","i","n","c","i","p","a","l">>,
                   <<"a","r","c","h","i","t","e","c","t">>,
                   <<"e","x","p","e","r","t">> >>
mid_terms == << <<"m","i","d">>, <<"i","n","t","e","r","m","e","d","i","a","t","e">>,
                <<"e","x","p","e","r","i","e","n","c","e","d">>,
                <<"r","e","g","u","l","a","r">> >>
junior_terms == << <<"j","u","n","i","o","r">>, <<"e","n","t","r","y">>,
                   <<"t","r","a","i","n","e","e">>, <<"i","n","t","e","r","n">>,
                   <<"g","r","a","d","u","a","t","e">> >>

\* any(term in s for term in terms)
AnyTermIn(terms, s) == \E i \in DOMAIN terms : Contains(s, terms[i])

\* _calculate_role_match giving 0.6 only for a senior job and a mid-level
\* consultant, not for the opposite direction
RoleMatchOneDirection(job, consultant) ==
    IF Truthy(job.seniority) /\ Truthy(consultant.seniority)
    THEN LET job_sen == Lower(job.seniority)
             cons_sen == Lower(consultant.seniority)
             job_is_senior == AnyTermIn(senior_terms, job_sen)
             job_is_mid == AnyTermIn(mid_terms, job_sen)
             job_is_junior == AnyTermIn(junior_terms, job_sen)
             cons_is_senior == AnyTermIn(senior_terms, cons_sen)
             cons_is_mid == AnyTermIn(mid_terms, cons_sen)
             cons_is_junior == AnyTermIn(junior_terms, cons_sen)
         IN  IF job_sen = cons_sen THEN Tenths(10)
             ELSE IF \/ (job_is_senior /\ cons_is_senior)
                     \/ (job_is_mid /\ cons_is_mid)
                     \/ (job_is_junior /\ cons_is_junior) THEN Tenths(9)
             ELSE IF job_is_senior /\ cons_is_mid THEN Tenths(6)
             ELSE Tenths(3)
    ELSE IF Truthy(job.role) /\ Truthy(consultant.role)
    THEN IF Lower(job.role) = Lower(consultant.role) THEN Tenths(8) ELSE Tenths(5)
    ELSE Tenths(5)

_calculate_role_match(job, consultant) ==
    IF Truthy(job.seniority) /\ Truthy(consultant.seniority)
    THEN LET job_sen == Lower(job.seniority)
             cons_sen == Lower(consultant.seniority)
             job_is_senior == AnyTermIn(senior_terms, job_sen)
             job_is_mid == AnyTermIn(mid_terms, job_sen)
             job_is_junior == AnyTermIn(junior_terms, job_sen)
             cons_is_senior == AnyTermIn(senior_terms, cons_sen)
             cons_is_mid == AnyTermIn(mid_terms, cons_sen)
             cons_is_junior == AnyTermIn(junior_terms, cons_sen)
         IN  IF job_sen = cons_sen THEN Tenths(10)
             ELSE IF \/ (job_is_senior /\ cons_is_senior)
                     \/ (job_is_mid /\ cons_is_mid)
                     \/ (job_is_junior /\ cons_is_junior) THEN Tenths(9)
             ELSE IF \/ (job_is_senior /\ cons_is_mid)
                     \/ (job_is_mid /\ cons_is_senior) THEN Tenths(6)
             ELSE Tenths(3)
    ELSE IF Truthy(job.role) /\ Truthy(consultant.role)
    THEN IF Lower(job.role) = Lower(consultant.role) THEN Tenths(8) ELSE Tenths(5)
    ELSE Tenths(5)

\* _calculate_language_match with its two guards in the other order: a job
\* that requires no language scores 0.0 against a consultant that lists none
LanguageMatchGuardsSwapped(job_languages, consultant_languages) ==
    IF ~Truthy(consultant_languages) THEN 0
    ELSE IF ~Truthy(job_languages) THEN Unit
    ELSE LET job_langs_lower == NormList(job_languages)
             consultant_langs_lower == NormList(consultant_languages)
             matches == Cardinality({ i \in DOMAIN job_langs_lower :
                            InList(job_langs_lower[i], consultant_langs_lower) })
         IN  (matches * Unit) \div Len(job_langs_lower)

_calculate_language_match(job_languages, consultant_languages) ==
    IF ~Truthy(job_languages) THEN Unit
    ELSE IF ~Truthy(consultant_languages) THEN 0
    ELSE LET job_langs_lower == NormList(job_languages)
             consultant_langs_lower == NormList(consultant_languages)
             matches == Cardinality({ i \in DOMAIN job_langs_lower :
                            InList(job_langs_lower[i], consultant_langs_lower) })
         IN  (matches * Unit) \div Len(job_langs_lower)

\* swedish_regions, in the dict's insertion order
swedish_regions == <<
    [region |-> "stockholm",
     cities |-> << <<"s","t","o","c","k","h","o","l","m">>, <<"s","o","l","n","a">>,
                   <<"s","u","n","d","b","y","b","e","r","g">>, <<"t","a:","b","y">>,
                   <<"n","a","c","k","a">>,
                   <<"j","a:","r","f","a:","l","l","a">> >>],
    [region |-> "gothenburg",
     cities |-> << <<"g","o","t","h","e","n","b","u","r","g">>,
                   <<"g","o:","t","e","b","o","r","g">>,
                   <<"m","o:","l","n","d","a","l">>,
                   <<"p","a","r","t","i","l","l","e">>,
                   <<"k","u","n","g","s","b","a","c","k","a">> >>],
    [region |-> "malmo:",
     cities |-> << <<"m","a","l","m","o:">>, <<"l","u","n","d">>,
                   <<"h","e","l","s","i","n","g","b","o","r","g">>,
                   <<"l","a","n","d","s","k","r","o","n","a">>,
                   <<"e","s","l","o:","v">> >>],
    [region |-> "uppsala",
     cities |-> << <<"u","p","p","s","a","l","a">>,
                   <<"e","n","k","o:","p","i","n","g">>,
                   <<"k","n","i","v","s","t","a">>,
                   <<"o:","s","t","h","a","m","m","a","r">> >>] >>

\* the region the loop leaves in job_region / cons_region: the last region,
\* in table order, one of whose cities is a substring of the city; "" if none
RegionOf(city) ==
    LET hits == { i \in DOMAIN swedish_regions :
                    AnyTermIn(swedish_regions[i].cities, city) }
    IN  IF hits = {} THEN ""
        ELSE swedish_regions[CHOOSE i \in hits : \A k \in hits : k <= i].region

\* the score before the location bonus; "return" marks the early return
GeoBase(job, consultant) ==
    IF HasMode(job.onsite_mode) /\ HasMode(consultant.onsite_mode)
    THEN IF job.onsite_mode = "remote" \/ consultant.onsite_mode = "remote"
         THEN [return |-> TRUE, base_score |-> Tenths(9)]
         ELSE IF job.onsite_mode = "hybrid"
                 /\ consultant.onsite_mode \in {"hybrid", "onsite"}
         THEN [return |-> FALSE, base_score |-> Tenths(7)]
         ELSE IF job.onsite_mode = consultant.onsite_mode
         THEN [return |-> FALSE, base_score |-> Tenths(8)]
         ELSE [return |-> FALSE, base_score |-> Tenths(3)]
    ELSE [return |-> FALSE, base_score |-> Tenths(5)]

\* _calculate_geo_match with the bonuses of the regional cluster and of the
\* country exchanged
GeoMatchBonusesExchanged(job, consultant) ==
    LET b == GeoBase(job, consultant)
        base_score == b.base_score
        both_city == Truthy(job.location_city) /\ Truthy(consultant.location_city)
        job_city == Lower(job.location_city)
        cons_city == Lower(consultant.location_city)
        job_region == RegionOf(job_city)
        cons_region == RegionOf(cons_city)
    IN  IF b.return THEN base_score
        ELSE IF both_city /\ job_city = cons_city
        THEN Min(Unit, base_score + Tenths(3))
        ELSE IF both_city /\ job_region # "" /\ cons_region # ""
                /\ job_region = cons_region
        THEN Min(Unit, base_score + Tenths(1))
        ELSE IF /\ Truthy(job.location_country)
                /\ Truthy(consultant.location_country)
                /\ Lower(job.location_country) = Lower(consultant.location_country)
        THEN Min(Unit, base_score + Tenths(2))
        ELSE base_score

_calculate_geo_match(job, consultant) ==
    LET b == GeoBase(job, consultant)
        base_score == b.base_score
        both_city == Truthy(job.location_city) /\ Truthy(consultant.location_city)
        job_city == Lower(job.location_city)
        cons_city == Lower(consultant.location_city)
        job_region == RegionOf(job_city)
        cons_region == RegionOf(cons_city)
    IN  IF b.return THEN base_score
        ELSE IF both_city /\ job_city = cons_city
        THEN Min(Unit, base_score + Tenths(3))
        ELSE IF both_city /\ job_region # "" /\ cons_region # ""
                /\ job_region = cons_region
        THEN Min(Unit, base_score + Tenths(2))
        ELSE IF /\ Truthy(job.location_country)
                /\ Truthy(consultant.location_country)
                /\ Lower(job.location_country) = Lower(consultant.location_country)
        THEN Min(Unit, base_score + Tenths(1))
        ELSE base_score

----------------------------------------------------------------------------
(* MatchingService._calculate_match_scores                                 *)

WEIGHT_COSINE == 45
WEIGHT_SKILLS == 25
WEIGHT_ROLE == 15
WEIGHT_LANGUAGE == 10
WEIGHT_GEO == 5

\* the weighted total, in units of 1 / (100 * Unit)
WeightedTotal(cosine_score, skills_score, role_score, language_score, geo_score) ==
    WEIGHT_COSINE * cosine_score
    + WEIGHT_SKILLS * skills_score
    + WEIGHT_ROLE * role_score
    + WEIGHT_LANGUAGE * language_score
    + WEIGHT_GEO * geo_score

_calculate_match_scores(job, consultant, job_embedding, consultant_embedding) ==
    Only({ [total |-> WeightedTotal(cosine_score, skills_score, role_score,
                                    language_score, geo_score),
            cosine |-> cosine_score,
            skills |-> skills_score,
            role |-> role_score,
            language |-> language_score,
            geo |-> geo_score] :
           cosine_score \in { cosine_similarity(job_embedding, consultant_embedding) },
           skills_score \in { _calculate_skills_match(job.skills, consultant.skills) },
           role_score \in { _calculate_role_match(job, consultant) },
           language_score \in { _calculate_language_match(job.languages,
                                                         consultant.languages) },
           geo_score \in { _calculate_geo_match(job, consultant) } })

----------------------------------------------------------------------------
(* Fixtures: the jobs and consultants the checks range over.  Each has the *)
(* fields of app.models.Job / Consultant that matching reads.              *)

JobPool == <<
    [skills |-> << <<"P","y","t","h","o","n">>, <<"J","a","v","a">> >>,
     seniority |-> <<"S","e","n","i","o","r">>,
     role |-> <<"B","a","c","k","e","n","d"," ","D","e","v","e","l","o","p","e","r">>,
     languages |-> << <<"E","n","g","l","i","s","h">> >>,
     onsite_mode |-> "onsite",
     location_city |-> <<"S","t","o","c","k","h","o","l","m">>,
     location_country |-> <<"S","w","e","d","e","n">>],
    [skills |-> <<>>,
     seniority |-> <<>>,
     role |-> <<"A","r","c","h","i","t","e","c","t">>,
     languages |-> <<>>,
     onsite_mode |-> "remote",
     location_city |-> <<>>,
     location_country |-> <<>>],
    [skills |-> << <<"p","y","t","h","o","n"," ">>, <<"S","Q","L">> >>,
     seniority |-> <<"M","i","d">>,
     role |-> <<>>,
     languages |-> << <<"S","w","e","d","i","s","h">>, <<"E","n","g","l","i","s","h">> >>,
     onsite_mode |-> "hybrid",
     location_city |-> <<"S","o","l","n","a">>,
     location_country |-> <<"S","w","e","d","e","n">>],
    [skills |-> << <<"P","y","t","h","o","n","s">> >>,
     seniority |-> <<"L","e","a","d"," ","D","e","v","e","l","o","p","e","r">>,
     role |-> <<"T","e","c","h"," ","L","e","a","d">>,
     languages |-> << <<"s","w","e","d","i","s","h">> >>,
     onsite_mode |-> "",
     location_city |-> <<"L","u","n","d">>,
     location_country |-> <<"s","w","e","d","e","n">>],
    [skills |-> << <<"J","a","v","a">> >>,
     seniority |-> <<"J","u","n","i","o","r">>,
     role |-> <<"D","e","v","e","l","o","p","e","r">>,
     languages |-> << <<"N","o","r","w","e","g","i","a","n">> >>,
     onsite_mode |-> "onsite",
     location_city |-> <<"O","s","l","o">>,
     location_country |-> <<"N","o","r","w","a","y">>],
    [skills |-> << <<"R","e","a","c","t">>, <<"J","a","v","a">>, <<"S","Q","L">> >>,
     seniority |-> <<>>,
     role |-> <<"b","a","c","k","e","n","d"," ","d","e","v","e","l","o","p","e","r">>,
     languages |-> << <<"E","n","g","l","i","s","h">> >>,
     onsite_mode |-> "hybrid",
     location_city |-> <<>>,
     location_country |-> <<"S","w","e","d","e","n">>] >>

ConsultantPool == <<
    [skills |-> << <<"p","y","t","h","o","n">>, <<"j","a","v","a">> >>,
     seniority |-> <<"s","e","n","i","o","r">>,
     role |-> <<"B","a","c","k","e","n","d"," ","D","e","v","e","l","o","p","e","r">>,
     languages |-> << <<"e","n","g","l","i","s","h">>, <<"s","w","e","d","i","s","h">> >>,
     onsite_mode |-> "onsite",
     location_city |-> <<"s","t","o","c","k","h","o","l","m">>,
     location_country |-> <<"S","w","e","d","e","n">>],
    [skills |-> <<>>,
     seniority |-> <<>>,
     role |-> <<>>,
     languages |-> <<>>,
     onsite_mode |-> "",
     location_city |-> <<>>,
     location_country |-> <<>>],
    [skills |-> << <<"P","y","t","h","o","n","s">>, <<"s","q","l">> >>,
     seniority |-> <<"S","e","n","i","o","r"," ","A","r","c","h","i","t","e","c","t">>,
     role |-> <<>>,
     languages |-> << <<"S","w","e","d","i","s","h">> >>,
     onsite_mode |-> "hybrid",
     location_city |-> <<"S","u","n","d","b","y","b","e","r","g">>,
     location_country |-> <<"S","w","e","d","e","n">>],
    [skills |-> << <<"J","a","v","a">> >>,
     seniority |-> <<"I","n","t","e","r","m","e","d","i","a","t","e">>,
     role |-> <<"T","e","c","h"," ","L","e","a","d">>,
     languages |-> << <<"S","w","e","d","i","s","h">> >>,
     onsite_mode |-> "remote",
     location_city |-> <<"M","a","l","m","o:">>,
     location_country |-> <<"S","w","e","d","e","n">>],
    [skills |-> << <<"C">> >>,
     seniority |-> <<"I","n","t","e","r","n">>,
     role |-> <<"D","e","v","e","l","o","p","e","r">>,
     languages |-> << <<"E","n","g","l","i","s","h">> >>,
     onsite_mode |-> "hybrid",
     location_city |-> <<"B","e","r","g","e","n">>,
     location_country |-> <<"N","o","r","w","a","y">>],
    [skills |-> << <<"p","y","t","h","o","n">>, <<"R","e","a","c","t">>, <<"s","q","l">>, <<"j","a","v","a">> >>,
     seniority |-> <<"M","i","d">>,
     role |-> <<"B","a","c","k","e","n","d"," ","D","e","v","e","l","o","p","e","r">>,
     languages |-> << <<"E","n","g","l","i","s","h">> >>,
     onsite_mode |-> "onsite",
     location_city |-> <<"L","u","n","d">>,
     location_country |-> <<"D","e","n","m","a","r","k">>] >>

\* embedding vectors: empty, zero, and vectors of integer norm 1 and 5
EmbPool == { <<>>, <<0, 0>>, <<1, 0>>, <<-1, 0>>, <<3, 4>> }

NoScores == [total |-> 0, cosine |-> 0, skills |-> 0, role |-> 0,
             language |-> 0, geo |-> 0]

----------------------------------------------------------------------------
(* The database the orchestrator reads: jobs 1..NumJobs and consultants    *)
(* 1..NumConsultants, a higher id being the more recent row.               *)

NumJobs == 2
NumConsultants == 2
MaxResults == 2

JobIds == 1..NumJobs
ConsultantIds == 1..NumConsultants

\* get_job: the row, for an id the table holds
JobRow(job_id) == JobPool[((job_id - 1) % Len(JobPool)) + 1]
\* get_consultant
ConsultantRow(consultant_id) ==
    ConsultantPool[((consultant_id - 1) % Len(ConsultantPool)) + 1]
\* column consultants.active: every second consultant is inactive
ConsultantActive(consultant_id) == consultant_id % 2 = 1

\* the vector the embedding backend returns for the entity's text (the
\* local backend hashes the text, so it is a function of the entity)
BackendVectors == << <<1, 0>>, <<3, 4>>, <<-1, 0>> >>
JobBackendEmbedding(job_id) ==
    BackendVectors[((job_id - 1) % Len(BackendVectors)) + 1]
ConsultantBackendEmbedding(consultant_id) ==
    BackendVectors[((2 * (consultant_id - 1)) % Len(BackendVectors)) + 1]

DefaultLimit == 100

\* ids lo..hi in descending order (ORDER BY ... DESC)
RECURSIVE Descending(_, _)
Descending(lo, hi) == IF hi < lo THEN <<>> ELSE <<hi>> \o Descending(lo, hi - 1)

RECURSIVE SelectSeq2(_, _)
SelectSeq2(seq, keep) ==
    IF seq = <<>> THEN <<>>
    ELSE (IF Head(seq) \in keep THEN <<Head(seq)>> ELSE <<>>)
         \o SelectSeq2(Tail(seq), keep)

Take(seq, n) == SubSeq(seq, 1, Min(Len(seq), n))

\* get_jobs(limit=100)
get_jobs(limit) == Take(Descending(1, NumJobs), limit)
\* get_consultants(active_only=True, limit=100)
get_consultants(limit) ==
    Take(SelectSeq2(Descending(1, NumConsultants),
                    { c \in ConsultantIds : ConsultantActive(c) }), limit)

\* an Optional[List[UUID]] argument: None, or a list (which may be empty)
NoneArg == [given |-> FALSE, ids |-> <<>>]
ListArg(ids) == [given |-> TRUE, ids |-> ids]
\* `if job_ids:` - None and the empty list are both falsy
TruthyArg(arg) == arg.given /\ arg.ids # <<>>

\* lines 36-41: the explicit ids that resolve, in the order given, or the
\* most recent jobs when job_ids is None or empty
ResolveJobs(job_ids) ==
    IF TruthyArg(job_ids) THEN SelectSeq2(job_ids.ids, JobIds)
    ELSE get_jobs(DefaultLimit)
\* lines 44-49
ResolveConsultants(consultant_ids) ==
    IF TruthyArg(consultant_ids) THEN SelectSeq2(consultant_ids.ids, ConsultantIds)
    ELSE get_consultants(DefaultLimit)

----------------------------------------------------------------------------
(* Embedding tables                                                        *)

NoEmbedding == [has |-> FALSE, vec |-> <<>>]

\* get_job_embedding / get_consultant_embedding: None (here <<>>) when there
\* is no row or the stored list is empty
get_embedding(store, id) ==
    IF store[id].has /\ store[id].vec # <<>> THEN store[id].vec ELSE <<>>

\* store_job_embedding / store_consultant_embedding: INSERT .. ON CONFLICT
\* DO UPDATE
store_embedding(store, id, embedding) ==
    [store EXCEPT ![id] = [has |-> TRUE, vec |-> embedding]]

----------------------------------------------------------------------------
(* Match table                                                             *)

\* upsert_match: INSERT .. ON CONFLICT (job_id, consultant_id) DO UPDATE
upsert_match(table, job_id, consultant_id, score) ==
    LET row == [job_id |-> job_id, consultant_id |-> consultant_id, score |-> score]
        hit == { i \in DOMAIN table :
                    table[i].job_id = job_id /\ table[i].consultant_id = consultant_id }
    IN  IF hit = {} THEN Append(table, row)
        ELSE [i \in DOMAIN table |-> IF i \in hit THEN row ELSE table[i]]

----------------------------------------------------------------------------
(* MatchingService._generate_match_reason                                  *)

\* fields of app.models.Job
JobAttributes ==
    {"job_uid", "source", "title", "description", "skills", "role", "seniority",
     "languages", "location_city", "location_country", "onsite_mode", "duration",
     "start_date", "company_id", "broker_id", "url", "posted_at", "scraped_etag",
     "scraped_last_modified", "raw_json", "job_id", "scraped_at"}
\* fields of app.models.Consultant
ConsultantAttributes ==
    {"name", "role", "seniority", "skills", "languages", "location_city",
     "location_country", "onsite_mode", "availability_from", "notes",
     "profile_url", "active", "consultant_id", "created_at", "updated_at"}
\* fields of app.models.MatchReason, none of which has a default
MatchReasonFields ==
    {"summary", "skills_matched", "skills_missing", "language_match",
     "location_match", "seniority_match", "onsite_match", "availability_match",
     "strengths", "concerns"}
\* the keyword arguments of the MatchReason(...) call at lines 387-397
MatchReasonKwargs ==
    {"summary", "skills_matched", "skills_missing", "language_match",
     "location_match", "availability_match", "rate_match", "strengths", "concerns"}

\* "" when a MatchReason is returned, else the exception raised: line 343
\* reads job.hourly_rate_max, line 375 consultant.availability_date, and the
\* constructor validates the required fields
_generate_match_reason(job, consultant, scores) ==
    IF "hourly_rate_max" \notin JobAttributes THEN "AttributeError"
    ELSE IF "availability_date" \notin ConsultantAttributes THEN "AttributeError"
    ELSE IF ~(MatchReasonFields \subseteq MatchReasonKwargs) THEN "ValidationError"
    ELSE ""

----------------------------------------------------------------------------
(* MatchingService._match_job_to_consultants                               *)

\* list.sort(key=total, reverse=True): stable, descending
RECURSIVE InsertDesc(_, _)
InsertDesc(sorted, x) ==
    IF sorted = <<>> THEN <<x>>
    ELSE IF Head(sorted).scores.total >= x.scores.total
         THEN <<Head(sorted)>> \o InsertDesc(Tail(sorted), x)
         ELSE <<x>> \o sorted
RECURSIVE SortByTotalDesc(_)
SortByTotalDesc(seq) ==
    IF seq = <<>> THEN <<>>
    ELSE InsertDesc(SortByTotalDesc(SubSeq(seq, 1, Len(seq) - 1)), seq[Len(seq)])

\* lines 82-87 without the test at line 83: the embedding is created and
\* stored whatever the table holds
EnsureConsultantEmbeddingAlways(store, c, fault) ==
    IF fault = "embedding"
    THEN [embedding |-> <<>>, store |-> store, created |-> FALSE,
          raised |-> "EmbeddingError"]
    ELSE [embedding |-> ConsultantBackendEmbedding(c),
          store |-> store_embedding(store, c, ConsultantBackendEmbedding(c)),
          created |-> TRUE, raised |-> ""]
\* lines 82-87: the consultant's embedding, created and stored when the
\* table has none; fault "embedding" makes create_embedding raise
EnsureConsultantEmbedding(store, c, fault) ==
    IF Truthy(get_embedding(store, c))
    THEN [embedding |-> get_embedding(store, c), store |-> store,
          created |-> FALSE, raised |-> ""]
    ELSE IF fault = "embedding"
    THEN [embedding |-> <<>>, store |-> store, created |-> FALSE,
          raised |-> "EmbeddingError"]
    ELSE [embedding |-> ConsultantBackendEmbedding(c),
          store |-> store_embedding(store, c, ConsultantBackendEmbedding(c)),
          created |-> TRUE, raised |-> ""]

\* lines 92-94: the pair is kept when its total reaches min_score and its
\* reason could be generated
FilterStep(job_id, c, scores, min_score, scored) ==
    IF scores.total >= min_score
    THEN IF _generate_match_reason(JobRow(job_id), ConsultantRow(c), scores) = ""
         THEN [scored |-> Append(scored, [consultant_id |-> c, scores |-> scores]),
               raised |-> ""]
         ELSE [scored |-> scored,
               raised |-> _generate_match_reason(JobRow(job_id), ConsultantRow(c),
                                                 scores)]
    ELSE [scored |-> scored, raised |-> ""]

\* lines 81-94 for consultant c.  acc carries the consultant embedding
\* table, the consultants whose embedding was created, scored_matches and
\* the exception raised ("" for none).
ConsultantStep(job_id, job_embedding, c, min_score, fault, acc) ==
    Only({ IF e.raised # ""
           THEN [consEmb |-> acc.consEmb, created |-> acc.created,
                 scored |-> acc.scored, raised |-> e.raised]
           ELSE Only({ Only({ [consEmb |-> e.store,
                               created |-> IF e.created THEN Append(acc.created, c)
                                           ELSE acc.created,
                               scored |-> r.scored, raised |-> r.raised] :
                              r \in { FilterStep(job_id, c, scores, min_score,
                                                 acc.scored) } }) :
                       scores \in { _calculate_match_scores(JobRow(job_id),
                                       ConsultantRow(c), job_embedding, e.embedding) } }) :
           e \in { EnsureConsultantEmbedding(acc.consEmb, c, fault) } })

\* lines 80-94, from position i of consultants on
RECURSIVE ScoreConsultants(_, _, _, _, _, _, _)
ScoreConsultants(job_id, job_embedding, consultants, i, min_score, fault, acc) ==
    IF i > Len(consultants) \/ acc.raised # "" THEN acc
    ELSE Only({ ScoreConsultants(job_id, job_embedding, consultants, i + 1,
                                 min_score, fault, next) :
                next \in { ConsultantStep(job_id, job_embedding, consultants[i],
                                          min_score, fault, acc) } })

\* lines 100-109: upsert top_matches in order; fault "upsert" makes the
\* first upsert raise
RECURSIVE StoreMatches(_, _, _, _)
StoreMatches(job_id, top_matches, fault, acc) ==
    IF top_matches = <<>> \/ acc.raised # "" THEN acc
    ELSE IF fault = "upsert" THEN [acc EXCEPT !.raised = "DatabaseError"]
    ELSE Only({ StoreMatches(job_id, Tail(top_matches), fault, next) :
                next \in { [table |-> upsert_match(acc.table, job_id,
                                        Head(top_matches).consultant_id,
                                        Head(top_matches).scores.total),
                            matches |-> Append(acc.matches,
                                [job_id |-> job_id,
                                 consultant_id |-> Head(top_matches).consultant_id,
                                 score |-> Head(top_matches).scores.total]),
                            raised |-> ""] } })

\* lines 71-76: the job's embedding, created and stored when the table has
\* none
EnsureJobEmbedding(store, job_id, fault) ==
    IF Truthy(get_embedding(store, job_id))
    THEN [embedding |-> get_embedding(store, job_id), store |-> store,
          created |-> FALSE, raised |-> ""]
    ELSE IF fault = "embedding"
    THEN [embedding |-> <<>>, store |-> store, created |-> FALSE,
          raised |-> "EmbeddingError"]
    ELSE [embedding |-> JobBackendEmbedding(job_id),
          store |-> store_embedding(store, job_id, JobBackendEmbedding(job_id)),
          created |-> TRUE, raised |-> ""]

\* lines 96-111 on scored_matches
SortTopStore(job_id, scored, max_results, table, fault) ==
    StoreMatches(job_id, Take(SortByTotalDesc(scored), max_results), fault,
                 [table |-> table, matches |-> <<>>, raised |-> ""])

\* the whole call, on the tables db = [jobEmb, consEmb, table]: what it
\* leaves in them, the embeddings it created, what it returns, and the
\* exception it raised ("" for none)
_match_job_to_consultants(job_id, consultants, min_score, max_results, db, fault) ==
    Only({ IF e.raised # ""
           THEN [jobEmb |-> db.jobEmb, consEmb |-> db.consEmb, table |-> db.table,
                 created |-> [job |-> FALSE, consultants |-> <<>>],
                 matches |-> <<>>, raised |-> e.raised]
           ELSE Only({ IF sc.raised # ""
                       THEN [jobEmb |-> e.store, consEmb |-> sc.consEmb,
                             table |-> db.table,
                             created |-> [job |-> e.created,
                                          consultants |-> sc.created],
                             matches |-> <<>>, raised |-> sc.raised]
                       ELSE Only({ [jobEmb |-> e.store, consEmb |-> sc.consEmb,
                                    table |-> st.table,
                                    created |-> [job |-> e.created,
                                                 consultants |-> sc.created],
                                    matches |-> st.matches,
                                    raised |-> st.raised] :
                                   st \in { SortTopStore(job_id, sc.scored, max_results,
                                                         db.table, fault) } }) :
                       sc \in { ScoreConsultants(job_id, e.embedding, consultants, 1,
                                   min_score, fault,
                                   [consEmb |-> db.consEmb, created |-> <<>>,
                                    scored |-> <<>>, raised |-> ""]) } }) :
           e \in { EnsureJobEmbedding(db.jobEmb, job_id, fault) } })

----------------------------------------------------------------------------
(* MatchingService.run_matching                                            *)

\* min_score arguments: the default 0.5, and 0.9
MinScores == { 50 * Unit, 90 * Unit }
\* job_ids arguments: None, and lists of ids, one of them empty and one
\* with an id that does not resolve
JobIdLists == { NoneArg } \cup { ListArg(ids) :
                    ids \in { <<>>, <<1>>, <<1, 2>>, <<2, 1>>, <<NumJobs + 1, 2>> } }
\* consultant_ids arguments
ConsultantIdLists == { NoneArg } \cup { ListArg(ids) :
                    ids \in { <<>>, <<2>>, <<1, 2>>, <<2, NumConsultants + 1, 1>> } }
Faults == {"none", "embedding", "upsert"}
\* table job_consultant_matches before the first call: empty, or rows left
\* by an earlier scoring of the pairs (at most one row per pair)
PriorScore == 95 * Unit
PriorMatchTables ==
    { <<>>,
      << [job_id |-> 1, consultant_id |-> 1, score |-> PriorScore] >>,
      << [job_id |-> 2, consultant_id |-> 1, score |-> PriorScore],
         [job_id |-> 1, consultant_id |-> 2, score |-> PriorScore] >> }

NoArgs == [job_ids |-> NoneArg, consultant_ids |-> NoneArg, min_score |-> 0,
           max_results |-> 0]

MatchIdle ==
    /\ jobEmbStore = [j \in JobIds |-> NoEmbedding]
    /\ consEmbStore = [c \in ConsultantIds |-> NoEmbedding]
    /\ matchTable = <<>>
    /\ mPc = "idle"
    /\ mArgs = NoArgs
    /\ mJobs = <<>>
    /\ mConsultants = <<>>
    /\ mIdx = 0
    /\ mMatches = <<>>
    /\ mLog = <<>>

\* the database before any call: every entity with or without a stored
\* embedding, no match
MatchInit ==
    /\ jobEmbStore \in
         { [j \in JobIds |-> IF j \in S
                             THEN [has |-> TRUE, vec |-> JobBackendEmbedding(j)]
                             ELSE NoEmbedding] : S \in SUBSET JobIds }
    /\ consEmbStore \in
         { [c \in ConsultantIds |-> IF c \in S
                                    THEN [has |-> TRUE, vec |-> ConsultantBackendEmbedding(c)]
                                    ELSE NoEmbedding] : S \in SUBSET ConsultantIds }
    /\ matchTable \in PriorMatchTables
    /\ mPc = "idle"
    /\ mArgs = NoArgs
    /\ mJobs = <<>>
    /\ mConsultants = <<>>
    /\ mIdx = 0
    /\ mMatches = <<>>
    /\ mLog = <<>>
    /\ sJob = JobPool[1] /\ sConsultant = ConsultantPool[1]
    /\ sJobEmb = <<>> /\ sConsEmb = <<>> /\ sScores = NoScores /\ sPc = "input"
    /\ ScanIdle
    /\ SchedIdle
    /\ OptIdle
    /\ ParamIdle
    /\ RateIdle
    /\ TrigIdle

\* lines 26-51: a call starts; jobs and consultants are resolved
RunMatchingWith(limits) ==
    /\ mPc \in {"idle", "returned", "raised"}
    /\ \E job_ids \in JobIdLists, consultant_ids \in ConsultantIdLists,
          min_score \in MinScores, max_results \in limits :
            /\ mArgs' = [job_ids |-> job_ids, consultant_ids |-> consultant_ids,
                         min_score |-> min_score, max_results |-> max_results]
            /\ mJobs' = ResolveJobs(job_ids)
            /\ mConsultants' = ResolveConsultants(consultant_ids)
    /\ mPc' = "running"
    /\ mIdx' = 1
    /\ mMatches' = <<>>
    /\ mLog' = <<>>
    /\ UNCHANGED <<jobEmbStore, consEmbStore, matchTable>>
    /\ UNCHANGED <<scoreVars, scanVars, schedVars, optVars, paramVars, rateVars, trigVars>>

RunMatching == RunMatchingWith(0..MaxResults)

\* lines 53-57: one iteration of the loop over jobs.  Nothing catches an
\* exception of _match_job_to_consultants: it leaves run_matching.
MatchJob ==
    /\ mPc = "running"
    /\ mIdx <= Len(mJobs)
    /\ \E fault \in Faults :
       \E r \in { _match_job_to_consultants(mJobs[mIdx], mConsultants,
                     mArgs.min_score, mArgs.max_results,
                     [jobEmb |-> jobEmbStore, consEmb |-> consEmbStore,
                      table |-> matchTable], fault) } :
            /\ jobEmbStore' = r.jobEmb
            /\ consEmbStore' = r.consEmb
            /\ matchTable' = r.table
            /\ mLog' = Append(mLog, [job_id |-> mJobs[mIdx], raised |-> r.raised,
                                     created |-> r.created,
                                     matches |-> r.matches])
            /\ IF r.raised = ""
               THEN /\ mMatches' = mMatches \o r.matches
                    /\ mIdx' = mIdx + 1
                    /\ mPc' = "running"
               ELSE /\ mMatches' = mMatches
                    /\ mIdx' = mIdx
                    /\ mPc' = "raised"
    /\ UNCHANGED <<mArgs, mJobs, mConsultants>>
    /\ UNCHANGED <<scoreVars, scanVars, schedVars, optVars, paramVars, rateVars, trigVars>>

\* line 59
ReturnMatches ==
    /\ mPc = "running"
    /\ mIdx > Len(mJobs)
    /\ mPc' = "returned"
    /\ UNCHANGED <<jobEmbStore, consEmbStore, matchTable, mArgs, mJobs,
                   mConsultants, mIdx, mMatches, mLog>>
    /\ UNCHANGED <<scoreVars, scanVars, schedVars, optVars, paramVars, rateVars, trigVars>>

MatchNext == RunMatching \/ MatchJob \/ ReturnMatches

\* a call that keeps every qualifying match (max_results at its largest)
RunMatchingUncut == RunMatchingWith({MaxResults})

\* SpecEmbed: the calls of SpecMatch whose max_results cuts nothing off; the
\* embedding tables are read and written before max_results is used
EmbedNext == RunMatchingUncut \/ MatchJob \/ ReturnMatches

SpecMatch == MatchInit /\ [][MatchNext]_vars

SpecEmbed == MatchInit /\ [][EmbedNext]_vars

----------------------------------------------------------------------------
(* SpecScore: _calculate_match_scores applied to one pair                  *)

ScoreInit ==
    /\ sJob \in Range(JobPool)
    /\ sConsultant \in Range(ConsultantPool)
    /\ sJobEmb \in EmbPool
    /\ sConsEmb \in EmbPool
    /\ sScores = NoScores
    /\ sPc = "input"
    /\ MatchIdle
    /\ ScanIdle
    /\ SchedIdle
    /\ OptIdle
    /\ ParamIdle
    /\ RateIdle
    /\ TrigIdle

CalculateMatchScores ==
    /\ sPc = "input"
    /\ sScores' = _calculate_match_scores(sJob, sConsultant, sJobEmb, sConsEmb)
    /\ sPc' = "scored"
    /\ UNCHANGED <<sJob, sConsultant, sJobEmb, sConsEmb>>
    /\ UNCHANGED <<matchVars, scanVars, schedVars, optVars, paramVars, rateVars, trigVars>>

ScoreNext == CalculateMatchScores

SpecScore == ScoreInit /\ [][ScoreNext]_vars

----------------------------------------------------------------------------
(* SpecGap: _calculate_match_scores applied to a pair from which any set   *)
(* of the fields it reads, and either embedding, may be missing            *)

GapFields == {"skills", "languages", "seniority", "role", "onsite_mode",
              "location_city", "location_country"}

\* the record with the given fields absent: None, [] and '' are all falsy
\* to the scoring code
Blank(rec, missing) ==
    [f \in DOMAIN rec |->
        IF f \notin missing THEN rec[f]
        ELSE IF f = "onsite_mode" THEN "" ELSE <<>>]

GapJobs == { Blank(JobPool[1], missing) : missing \in SUBSET GapFields }
GapConsultants == { Blank(ConsultantPool[1], missing) : missing \in SUBSET GapFields }
GapEmbeddings == { <<>>, <<3, 4>> }

GapInit ==
    /\ sJob \in GapJobs
    /\ sConsultant \in GapConsultants
    /\ sJobEmb \in GapEmbeddings
    /\ sConsEmb \in GapEmbeddings
    /\ sScores = NoScores
    /\ sPc = "input"
    /\ MatchIdle
    /\ ScanIdle
    /\ SchedIdle
    /\ OptIdle
    /\ ParamIdle
    /\ RateIdle
    /\ TrigIdle

SpecGap == GapInit /\ [][ScoreNext]_vars

----------------------------------------------------------------------------
(* SpecSkills: _calculate_match_scores over pairs of skill lists           *)

\* skills as they are written in postings and profiles
SkillVocabulary == { <<"P","y","t","h","o","n">>, <<"p","y","t","h","o","n">>,
                     <<"P","y","t","h","o","n","s">>, <<"A","W","S">>,
                     <<"A","z","u","r","e">>, <<" ","a","w","s"," ">> }
\* the longest skill list
MaxSkills == 2
SkillLists == UNION { [1..n -> SkillVocabulary] : n \in 0..MaxSkills }

SkillsInit ==
    /\ \E job_skills \in SkillLists : sJob = [JobPool[1] EXCEPT !.skills = job_skills]
    /\ \E consultant_skills \in SkillLists :
          sConsultant = [ConsultantPool[1] EXCEPT !.skills = consultant_skills]
    /\ sJobEmb = <<3, 4>>
    /\ sConsEmb = <<3, 4>>
    /\ sScores = NoScores
    /\ sPc = "input"
    /\ MatchIdle
    /\ ScanIdle
    /\ SchedIdle
    /\ OptIdle
    /\ ParamIdle
    /\ RateIdle
    /\ TrigIdle

SpecSkills == SkillsInit /\ [][ScoreNext]_vars

----------------------------------------------------------------------------
(* SpecRole: _calculate_match_scores over seniority and role values        *)

\* seniority values; <<>> is None
SeniorityPool == { <<>>,
                   <<"S","e","n","i","o","r">>,
                   <<"s","e","n","i","o","r">>,
                   <<"L","e","a","d"," ","E","n","g","i","n","e","e","r">>,
                   <<"S","e","n","i","o","r"," ","A","r","c","h","i","t","e","c","t">>,
                   <<"M","i","d">>,
                   <<"M","i","d","-","S","e","n","i","o","r">>,
                   <<"E","x","p","e","r","i","e","n","c","e","d">>,
                   <<"J","u","n","i","o","r">>,
                   <<"I","n","t","e","r","n">>,
                   <<"I","n","t","e","r","n","a","l"," ","L","e","a","d">>,
                   <<"C","o","n","s","u","l","t","a","n","t">> }
\* role values; <<>> is None
RolePool == { <<>>,
              <<"D","e","v","e","l","o","p","e","r">>,
              <<"d","e","v","e","l","o","p","e","r">>,
              <<"A","r","c","h","i","t","e","c","t">> }

RoleInit ==
    /\ \E seniority \in SeniorityPool, role \in RolePool :
          sJob = [JobPool[1] EXCEPT !.seniority = seniority, !.role = role]
    /\ \E seniority \in SeniorityPool, role \in RolePool :
          sConsultant = [ConsultantPool[1] EXCEPT !.seniority = seniority,
                                                  !.role = role]
    /\ sJobEmb = <<3, 4>>
    /\ sConsEmb = <<3, 4>>
    /\ sScores = NoScores
    /\ sPc = "input"
    /\ MatchIdle
    /\ ScanIdle
    /\ SchedIdle
    /\ OptIdle
    /\ ParamIdle
    /\ RateIdle
    /\ TrigIdle

SpecRole == RoleInit /\ [][ScoreNext]_vars

----------------------------------------------------------------------------
(* SpecGeo: _calculate_match_scores over onsite modes and locations        *)

\* OnsiteMode values, and "" for None
GeoModes == {"", "onsite", "remote", "hybrid"}
\* location_city values; <<>> is None
GeoCities == { <<>>, <<"S","t","o","c","k","h","o","l","m">>,
               <<"s","t","o","c","k","h","o","l","m">>,
               <<"S","o","l","n","a">>, <<"L","u","n","d">>,
               <<"O","s","l","o">> }
\* location_country values; <<>> is None
GeoCountries == { <<>>, <<"S","w","e","d","e","n">>, <<"N","o","r","w","a","y">> }

GeoJobs ==
    { [JobPool[1] EXCEPT !.onsite_mode = mode, !.location_city = city,
                         !.location_country = country] :
        mode \in GeoModes, city \in GeoCities, country \in GeoCountries }
GeoConsultants ==
    { [ConsultantPool[1] EXCEPT !.onsite_mode = mode, !.location_city = city,
                                !.location_country = country] :
        mode \in GeoModes, city \in GeoCities, country \in GeoCountries }

GeoInit ==
    /\ sJob \in GeoJobs
    /\ sConsultant \in GeoConsultants
    /\ sJobEmb = <<3, 4>>
    /\ sConsEmb = <<3, 4>>
    /\ sScores = NoScores
    /\ sPc = "input"
    /\ MatchIdle
    /\ ScanIdle
    /\ SchedIdle
    /\ OptIdle
    /\ ParamIdle
    /\ RateIdle
    /\ TrigIdle

SpecGeo == GeoInit /\ [][ScoreNext]_vars

----------------------------------------------------------------------------
(* The tables and adapters a scan cycle uses                               *)

NumSources == 2

\* self.enabled_sources, in insertion order.  The registry ships with
\* 'verama'; the loop over it is written for any number of entries.
SourceRegistry == <<"verama", "cinode", "keyman", "brainville", "ework">>
enabled_sources == SubSeq(SourceRegistry, 1, NumSources)

ConfigIds == {1, 2, 3}

\* table source_config_overrides: the row of (config_id, source_name), when
\* there is one, is enabled or disabled
OverrideStates == <<"none", "enabled", "disabled">>
SourcePosition(source_name) ==
    CHOOSE i \in DOMAIN SourceRegistry : SourceRegistry[i] = source_name
OverrideState(config_id, source_name) ==
    OverrideStates[((config_id + SourcePosition(source_name)) % 3) + 1]
source_config_overrides(config_id) ==
    { [source_name |-> s, is_enabled |-> OverrideState(config_id, s) = "enabled"] :
        s \in { x \in Range(SourceRegistry) : OverrideState(config_id, x) # "none" } }

\* get_source_config_overrides: WHERE config_id = $1 AND is_enabled = true
get_source_config_overrides(config_id) ==
    { row \in source_config_overrides(config_id) : row.is_enabled = TRUE }

\* line 206: source_name in override_dict and not override_dict[..]['is_enabled']
SourceDisabled(source_name, overrides) ==
    \E row \in overrides : row.source_name = source_name /\ ~row.is_enabled

\* @retry(stop=stop_after_attempt(3), ...)
stop_after_attempt == 3

\* fetch_page when the first `failures` requests fail: it is retried until
\* a request succeeds or stop_after_attempt attempts were made
fetch_page(failures) ==
    IF failures >= stop_after_attempt
    THEN [raised |-> "RetryError", attempts |-> stop_after_attempt]
    ELSE [raised |-> "", attempts |-> failures + 1]

\* scrape_listings of an adapter: fetches the listing page and parses it;
\* listings holds, per raw listing, whether create_job_model accepts it
scrape_listings(failures, listings) ==
    IF fetch_page(failures).raised # ""
    THEN [raised |-> fetch_page(failures).raised, listings |-> <<>>,
          attempts |-> fetch_page(failures).attempts]
    ELSE [raised |-> "", listings |-> listings,
          attempts |-> fetch_page(failures).attempts]

\* BaseScraper.scrape without its handler: the exception leaves scrape
ScrapePropagates(raw) ==
    [raised |-> raw.raised,
     jobs |-> Cardinality({ i \in DOMAIN raw.listings : raw.listings[i] })]

\* BaseScraper.scrape: the jobs create_job_model built (their number), or
\* [] when anything raised
scrape(raw) ==
    IF raw.raised # "" THEN [raised |-> "", jobs |-> 0]
    ELSE [raised |-> "",
          jobs |-> Cardinality({ i \in DOMAIN raw.listings : raw.listings[i] })]

\* the methods MatchingService defines
MatchingServiceMethods ==
    {"run_matching", "_match_job_to_consultants", "_calculate_match_scores",
     "_calculate_skills_match", "_calculate_role_match",
     "_calculate_language_match", "_calculate_geo_match", "_generate_match_reason"}

\* _generate_matches_for_jobs: the number of matches it returns for n
\* stored jobs; the per-job call raises AttributeError, which it catches
_generate_matches_for_jobs(n) ==
    IF "find_matches_for_job" \in MatchingServiceMethods THEN n ELSE 0

\* _generate_matches_for_jobs: of n stored jobs, those for which the
\* matching service ran (lines 296-300: the call inside the try)
JobsMatchingRanFor(n) ==
    IF "find_matches_for_job" \in MatchingServiceMethods THEN n ELSE 0

\* parameters of DatabaseRepository.update_source_performance after self
update_source_performance_params == <<"config_id", "source_name", "performance_data">>
\* the positional arguments _update_source_performance passes to it
update_source_performance_args ==
    <<"config_id", "source_name", "success_rate", "matches_generated", "now">>
\* _update_source_performance: "" or the exception raised
_update_source_performance ==
    IF Len(update_source_performance_args) # Len(update_source_performance_params)
    THEN "TypeError" ELSE ""

\* DatabaseRepository.upsert_jobs on n jobs when the upsert_job of the job at
\* position fail_at raises (no position: none does): the loop has no
\* handler, so the jobs before it are stored and the exception leaves
upsert_jobs(n, fail_at) ==
    IF fail_at \in 1..n
    THEN [raised |-> "DatabaseError", stored |-> fail_at - 1, returned |-> 0]
    ELSE [raised |-> "", stored |-> n, returned |-> n]

\* line 219 with = for +=
SetFound(found, n) == n
\* line 219: jobs_found += len(jobs)
AddFound(found, n) == found + n

\* lines 238-240 with break for continue
AfterSourceErrorStops(i, n) == n + 1
\* lines 238-240: except Exception: continue -- the next position of the
\* loop over n sources after an exception at position i
AfterSourceError(i, n) == i + 1

\* lines 179-181 with break for continue
AfterConfigErrorStops(i, n) == n + 1
\* lines 179-181: except Exception: continue
AfterConfigError(i, n) == i + 1

\* one iteration of the loop at lines 205-240, from jobs_found = found and
\* matches_generated = generated: the new values, the exception the
\* iteration's handler caught ("" for none), and what happened
SourceIteration(source_name, overrides, found, generated, in) ==
    IF SourceDisabled(source_name, overrides)
    THEN [jobs_found |-> found, matches_generated |-> generated, attempts |-> 0,
          trace |-> [source_name |-> source_name, fetch |-> "skipped", jobs |-> 0,
                     stored |-> 0, matched |-> 0, matches |-> 0, error |-> ""]]
    ELSE IF ~in.construct_ok
    THEN [jobs_found |-> found, matches_generated |-> generated, attempts |-> 0,
          trace |-> [source_name |-> source_name, fetch |-> "none", jobs |-> 0,
                     stored |-> 0, matched |-> 0, matches |-> 0, error |-> "ConstructError"]]
    ELSE Only({ Only({
            IF r.raised # ""
            THEN [jobs_found |-> found, matches_generated |-> generated,
                  attempts |-> raw.attempts,
                  trace |-> [source_name |-> source_name,
                             fetch |-> IF raw.raised # "" THEN "exhausted" ELSE "ok",
                             jobs |-> 0, stored |-> 0, matched |-> 0,
                             matches |-> 0, error |-> r.raised]]
            ELSE IF r.jobs = 0
            THEN [jobs_found |-> AddFound(found, r.jobs),
                  matches_generated |-> generated, attempts |-> raw.attempts,
                  trace |-> [source_name |-> source_name,
                             fetch |-> IF raw.raised # "" THEN "exhausted" ELSE "ok",
                             jobs |-> 0, stored |-> 0, matched |-> 0,
                             matches |-> 0, error |-> ""]]
            ELSE Only({
                IF up.raised # ""
                THEN [jobs_found |-> AddFound(found, r.jobs),
                      matches_generated |-> generated, attempts |-> raw.attempts,
                      trace |-> [source_name |-> source_name, fetch |-> "ok",
                                 jobs |-> r.jobs, stored |-> up.stored,
                                 matched |-> 0, matches |-> 0,
                                 error |-> up.raised]]
                ELSE [jobs_found |-> AddFound(found, r.jobs),
                      matches_generated |->
                          generated + _generate_matches_for_jobs(up.returned),
                      attempts |-> raw.attempts,
                      trace |-> [source_name |-> source_name, fetch |-> "ok",
                                 jobs |-> r.jobs, stored |-> up.stored,
                                 matched |-> up.returned,
                                 matches |-> _generate_matches_for_jobs(up.returned),
                                 error |-> _update_source_performance]] :
                up \in { upsert_jobs(r.jobs, in.upsert_fail) } }) :
            r \in { scrape(raw) } }) :
         raw \in { scrape_listings(in.failures, in.listings) } })

\* _log_config_performance: the row it inserts.  quality_score is the
\* fraction <<numerator, denominator>>; source_name is not set (NULL).
_log_config_performance(config_id, found, generated) ==
    [config_id |-> config_id,
     source_name |-> "",
     test_date |-> "scan_start",
     jobs_found |-> found,
     matches_generated |-> generated,
     quality_score |-> IF found > 0 THEN <<generated, Max(found, 1)>> ELSE <<0, 1>>]

----------------------------------------------------------------------------
(* ScannerScheduler.run_daily_scan                                         *)

\* results of get_active_scanning_configs
ActiveConfigLists == { <<>>, <<1>>, <<1, 2>>, <<2, 1>>, <<3, 1, 2>> }
\* requests that fail before fetch_page gets a response
FetchFailures == 0..stop_after_attempt
\* raw listings of a page: whether each makes a JobIn
ListingPool == { <<>>, <<TRUE>>, <<FALSE, TRUE>>, <<TRUE, TRUE>> }
\* the position in the batch of the job whose upsert_job raises; 0 for none
UpsertFailures == {0, 1, 2}

ScanInit ==
    /\ ScanIdle
    /\ SchedIdle
    /\ MatchIdle
    /\ OptIdle
    /\ ParamIdle
    /\ RateIdle
    /\ TrigIdle
    /\ sJob = JobPool[1] /\ sConsultant = ConsultantPool[1]
    /\ sJobEmb = <<>> /\ sConsEmb = <<>> /\ sScores = NoScores /\ sPc = "input"

\* lines 143-158: the active configurations and the consultant summary are
\* read; an exception of either leaves run_daily_scan (lines 188-190)
run_daily_scan ==
    /\ cPc = "idle"
    /\ \E fault \in {"none", "configs", "summary"}, configs \in ActiveConfigLists :
          IF fault = "configs"
          THEN cPc' = "failed" /\ active_configs' = <<>>
          ELSE /\ active_configs' = configs
               /\ cPc' = IF configs = <<>> THEN "done"
                         ELSE IF fault = "summary" THEN "failed"
                         ELSE "loop"
    /\ cIdx' = 1
    /\ total_jobs_found' = 0
    /\ total_matches_generated' = 0
    /\ UNCHANGED <<override_dict, sIdx, jobs_found, matches_generated, perfLog,
                   cAttempted, cResults, cTrace, cFetchAttempts>>

\* the scheduler's daily_scan job calls it
StartDailyScan ==
    /\ run_daily_scan
    /\ UNCHANGED <<scoreVars, matchVars, schedVars, optVars, paramVars, rateVars, trigVars>>

\* lines 161-168 and 197-202: the loop enters the next configuration and
\* _scan_with_config reads its overrides; when that raises, the handler at
\* lines 179-181 takes over
BeginConfig ==
    /\ cPc = "loop"
    /\ cIdx <= Len(active_configs)
    /\ cAttempted' = Append(cAttempted, active_configs[cIdx])
    /\ cTrace' = <<>>
    /\ jobs_found' = 0
    /\ matches_generated' = 0
    /\ \E overrides_ok \in BOOLEAN :
          IF overrides_ok
          THEN /\ override_dict' = get_source_config_overrides(active_configs[cIdx])
               /\ sIdx' = 1
               /\ cPc' = "sources"
               /\ UNCHANGED <<cIdx, cResults>>
          ELSE /\ cIdx' = AfterConfigError(cIdx, Len(active_configs))
               /\ cResults' = Append(cResults,
                                [config_id |-> active_configs[cIdx],
                                 outcome |-> "scan_raised",
                                 jobs_found |-> 0, matches_generated |-> 0])
               /\ UNCHANGED <<override_dict, sIdx, cPc>>
    /\ UNCHANGED <<active_configs, total_jobs_found, total_matches_generated,
                   perfLog, cFetchAttempts>>
    /\ UNCHANGED <<scoreVars, matchVars, schedVars, optVars, paramVars, rateVars, trigVars>>

\* lines 205-240: one source, in a scan whose position is pc
ScanSourceAt(pc) ==
    /\ cPc = pc
    /\ sIdx <= Len(enabled_sources)
    /\ \E construct_ok \in BOOLEAN, failures \in FetchFailures,
          listings \in ListingPool, upsert_fail \in UpsertFailures :
       \E r \in { SourceIteration(enabled_sources[sIdx], override_dict, jobs_found,
                     matches_generated,
                     [construct_ok |-> construct_ok, failures |-> failures,
                      listings |-> listings, upsert_fail |-> upsert_fail]) } :
          /\ jobs_found' = r.jobs_found
          /\ matches_generated' = r.matches_generated
          /\ cTrace' = Append(cTrace, r.trace)
          /\ cFetchAttempts' = r.attempts
          /\ sIdx' = IF r.trace.error = "" THEN sIdx + 1
                     ELSE AfterSourceError(sIdx, Len(enabled_sources))
    /\ UNCHANGED <<cPc, active_configs, cIdx, override_dict, total_jobs_found,
                   total_matches_generated, perfLog, cAttempted, cResults>>
    /\ UNCHANGED <<scoreVars, matchVars, schedVars, optVars, paramVars, rateVars, trigVars>>

ScanSource == ScanSourceAt("sources")

\* lines 242 and 169-181: _scan_with_config returns, the totals grow and
\* the configuration's row is logged; when the insert raises, the handler
\* at lines 179-181 takes over
EndConfig ==
    /\ cPc = "sources"
    /\ sIdx > Len(enabled_sources)
    /\ total_jobs_found' = total_jobs_found + jobs_found
    /\ total_matches_generated' = total_matches_generated + matches_generated
    /\ \E log_ok \in BOOLEAN :
          IF log_ok
          THEN /\ perfLog' = Append(perfLog,
                                _log_config_performance(active_configs[cIdx],
                                                        jobs_found, matches_generated))
               /\ cIdx' = cIdx + 1
               /\ cResults' = Append(cResults,
                                [config_id |-> active_configs[cIdx],
                                 outcome |-> "logged",
                                 jobs_found |-> jobs_found,
                                 matches_generated |-> matches_generated])
          ELSE /\ perfLog' = perfLog
               /\ cIdx' = AfterConfigError(cIdx, Len(active_configs))
               /\ cResults' = Append(cResults,
                                [config_id |-> active_configs[cIdx],
                                 outcome |-> "log_raised",
                                 jobs_found |-> jobs_found,
                                 matches_generated |-> matches_generated])
    /\ cPc' = "loop"
    /\ UNCHANGED <<active_configs, override_dict, sIdx, jobs_found,
                   matches_generated, cAttempted, cTrace, cFetchAttempts>>
    /\ UNCHANGED <<scoreVars, matchVars, schedVars, optVars, paramVars, rateVars, trigVars>>

\* lines 183-186: the loop is over
FinishDailyScan ==
    /\ cPc = "loop"
    /\ cIdx > Len(active_configs)
    /\ cPc' = "done"
    /\ UNCHANGED <<active_configs, cIdx, override_dict, sIdx, jobs_found,
                   matches_generated, total_jobs_found, total_matches_generated,
                   perfLog, cAttempted, cResults, cTrace, cFetchAttempts>>
    /\ UNCHANGED <<scoreVars, matchVars, schedVars, optVars, paramVars, rateVars, trigVars>>

ScanNext ==
    StartDailyScan \/ BeginConfig \/ ScanSource \/ EndConfig \/ FinishDailyScan

SpecScan == ScanInit /\ [][ScanNext]_vars

----------------------------------------------------------------------------
(* ScannerScheduler.trigger_scan_now                                       *)

\* config_id arguments: None (0), the ids of scanning_configs, and an id
\* that no row has
TriggerArgs == {0} \cup ConfigIds \cup {Cardinality(ConfigIds) + 1}

\* get_scanning_config: the row's id, or 0 for None
get_scanning_config(config_id) == IF config_id \in ConfigIds THEN config_id ELSE 0

\* lines 446-448: no config_id, run_daily_scan is awaited
TriggerDailyCycle ==
    /\ ~tConfigId.called
    /\ tConfigId' = [called |-> TRUE, config_id |-> 0]
    /\ run_daily_scan
    /\ UNCHANGED <<scoreVars, matchVars, schedVars, optVars, paramVars, rateVars>>

\* lines 442-445: the configuration is looked up and, when there is one,
\* _scan_with_config starts on it (lines 194-203); an exception of the
\* override query leaves trigger_scan_now
TriggerConfigScan ==
    /\ ~tConfigId.called
    /\ cPc = "idle"
    /\ \E config_id \in TriggerArgs \ {0}, overrides_ok \in BOOLEAN :
          /\ tConfigId' = [called |-> TRUE, config_id |-> config_id]
          /\ IF get_scanning_config(config_id) = 0
             THEN /\ cPc' = "manual_done"
                  /\ UNCHANGED <<cAttempted, cTrace, jobs_found, matches_generated,
                                 override_dict, sIdx>>
             ELSE /\ cAttempted' = Append(cAttempted, get_scanning_config(config_id))
                  /\ cTrace' = <<>>
                  /\ jobs_found' = 0
                  /\ matches_generated' = 0
                  /\ IF overrides_ok
                     THEN /\ override_dict' = get_source_config_overrides(
                                                  get_scanning_config(config_id))
                          /\ sIdx' = 1
                          /\ cPc' = "manual"
                     ELSE /\ cPc' = "manual_raised"
                          /\ UNCHANGED <<override_dict, sIdx>>
    /\ UNCHANGED <<active_configs, cIdx, total_jobs_found, total_matches_generated,
                   perfLog, cResults, cFetchAttempts>>
    /\ UNCHANGED <<scoreVars, matchVars, schedVars, optVars, paramVars, rateVars>>

\* one source of the configuration trigger_scan_now scans
ManualScanSource == ScanSourceAt("manual")

\* _scan_with_config returns to run_daily_scan's caller instead: the row is
\* logged as lines 172-177 do
ManualScanReturnsLogged ==
    /\ cPc = "manual"
    /\ sIdx > Len(enabled_sources)
    /\ cPc' = "manual_done"
    /\ perfLog' = Append(perfLog, _log_config_performance(tConfigId.config_id,
                                                          jobs_found, matches_generated))
    /\ UNCHANGED <<active_configs, cIdx, override_dict, sIdx, jobs_found,
                   matches_generated, total_jobs_found, total_matches_generated,
                   cAttempted, cResults, cTrace, cFetchAttempts>>
    /\ UNCHANGED <<scoreVars, matchVars, schedVars, optVars, paramVars, rateVars,
                   trigVars>>
\* line 445: _scan_with_config returns to trigger_scan_now, which drops the
\* counts and returns
ManualScanReturns ==
    /\ cPc = "manual"
    /\ sIdx > Len(enabled_sources)
    /\ cPc' = "manual_done"
    /\ UNCHANGED <<active_configs, cIdx, override_dict, sIdx, jobs_found,
                   matches_generated, total_jobs_found, total_matches_generated,
                   perfLog, cAttempted, cResults, cTrace, cFetchAttempts>>
    /\ UNCHANGED <<scoreVars, matchVars, schedVars, optVars, paramVars, rateVars,
                   trigVars>>

ManualNext ==
    \/ TriggerDailyCycle \/ TriggerConfigScan \/ ManualScanSource \/ ManualScanReturns
    \/ BeginConfig \/ ScanSource \/ EndConfig \/ FinishDailyScan

SpecManual == ScanInit /\ [][ManualNext]_vars

----------------------------------------------------------------------------
(* ScannerScheduler.start and the scheduler's executor                     *)

MaxTriggers == 3
MaxManual == 1

\* add_job(..., max_instances=1) with 2 instead
TwoInstances(job_id) == 2
\* the max_instances argument of the four add_job calls
max_instances(job_id) == 1

TotalDue ==
    due["daily_scan"] + due["weekly_report"] + due["monday_brief"]
        + due["config_optimization"]

SchedInit ==
    /\ SchedIdle
    /\ ScanIdle
    /\ MatchIdle
    /\ OptIdle
    /\ ParamIdle
    /\ RateIdle
    /\ TrigIdle
    /\ sJob = JobPool[1] /\ sConsultant = ConsultantPool[1]
    /\ sJobEmb = <<>> /\ sConsEmb = <<>> /\ sScores = NoScores /\ sPc = "input"

\* a trigger of a job that start() scheduled comes due: the executor starts
\* an instance
\* unless max_instances of the job are executing, in which case the run is
\* skipped with a warning and an event and the trigger moves to its next
\* time; nothing is kept for later
TriggerDue ==
    \E j \in ScheduledJobs :
        /\ TotalDue < MaxTriggers
        /\ due' = [due EXCEPT ![j] = @ + 1]
        /\ IF instances[j] < max_instances(j)
           THEN /\ instances' = [instances EXCEPT ![j] = @ + 1]
                /\ started' = [started EXCEPT ![j] = @ + 1]
                /\ lastEvent' = [lastEvent EXCEPT ![j] = "submitted"]
                /\ UNCHANGED skipped
           ELSE /\ skipped' = [skipped EXCEPT ![j] = @ + 1]
                /\ lastEvent' = [lastEvent EXCEPT ![j] = "max_instances"]
                /\ UNCHANGED <<instances, started>>
        /\ UNCHANGED manualScans
        /\ UNCHANGED <<scoreVars, matchVars, scanVars, optVars, paramVars, rateVars, trigVars>>

\* an instance the scheduler started ends, by returning or by an exception
InstanceEnds ==
    \E j \in ScheduledJobs :
        /\ instances[j] > 0
        /\ instances' = [instances EXCEPT ![j] = @ - 1]
        /\ lastEvent' = [lastEvent EXCEPT ![j] = "executed"]
        /\ UNCHANGED <<due, started, skipped, manualScans>>
        /\ UNCHANGED <<scoreVars, matchVars, scanVars, optVars, paramVars, rateVars, trigVars>>

\* trigger_scan_now(None): run_daily_scan is awaited directly, past the
\* executor
TriggerScanNow ==
    /\ manualScans < MaxManual
    /\ manualScans' = manualScans + 1
    /\ UNCHANGED <<instances, due, started, skipped, lastEvent>>
    /\ UNCHANGED <<scoreVars, matchVars, scanVars, optVars, paramVars, rateVars, trigVars>>

\* that call returns or raises
ManualScanEnds ==
    /\ manualScans > 0
    /\ manualScans' = manualScans - 1
    /\ UNCHANGED <<instances, due, started, skipped, lastEvent>>
    /\ UNCHANGED <<scoreVars, matchVars, scanVars, optVars, paramVars, rateVars, trigVars>>

SchedNext == TriggerDue \/ InstanceEnds \/ TriggerScanNow \/ ManualScanEnds

SpecSched == SchedInit /\ [][SchedNext]_vars

----------------------------------------------------------------------------
(* ScannerScheduler.optimize_configurations: the adaptive optimizer        *)

\* table scanning_configs: the columns of each row the optimizer reads
scanning_configs ==
    [c \in ConfigIds |->
        CASE c = 1 -> [config_id |-> 1,
                       target_skills |-> <<"Python", "Java">>,
                       target_roles |-> <<"Developer">>,
                       target_locations |-> <<"Stockholm">>]
          [] c = 2 -> [config_id |-> 2,
                       target_skills |-> <<"Python">>,
                       target_roles |-> <<>>,
                       target_locations |-> <<"Stockholm", "Lund">>]
          [] OTHER -> [config_id |-> c,
                       target_skills |-> <<>>,
                       target_roles |-> <<>>,
                       target_locations |-> <<>>]]

\* a quality_score column value: <<>> is NULL, <<q>> the score q * Unit
OrZero(quality_score) == IF quality_score = <<>> THEN 0 ELSE quality_score[1]

\* the quality_score values of a config's rows of the last 30 days
HistoryPool == { <<>>,
                 << <<>> >>,
                 << <<Tenths(5)>> >>,
                 << <<Tenths(8)>> >>,
                 << <<Tenths(7)>>, <<Tenths(9)>> >>,
                 << <<>>, <<Tenths(10)>> >> }

\* the repository call that raises: none, get_all_scanning_configs, or one
\* of the two calls made for one config
NoFault == [config |-> 0, at |-> ""]
OptFaults == {NoFault, [config |-> 0, at |-> "configs"]}
             \cup { [config |-> c, at |-> a] :
                        c \in ConfigIds, a \in {"history", "score"} }

\* is seq ordered by performance_score DESC
ByScoreDesc(seq, scores) ==
    \A i, k \in DOMAIN seq : i < k => scores[seq[i]] >= scores[seq[k]]

\* the orderings of a set, as sequences
Orderings(S) ==
    { seq \in [1..Cardinality(S) -> S] : \A x \in S : \E i \in DOMAIN seq : seq[i] = x }

\* get_all_scanning_configs: every config, ORDER BY performance_score DESC
\* (rows with equal scores come in any order)
get_all_scanning_configs(scores) ==
    { seq \in Orderings(ConfigIds) : ByScoreDesc(seq, scores) }

get_config_performance_history(history, config_id, fault) ==
    IF fault = [config |-> config_id, at |-> "history"]
    THEN [raised |-> "DatabaseError", rows |-> <<>>]
    ELSE [raised |-> "", rows |-> history[config_id]]

update_config_performance_score(scores, config_id, score, fault) ==
    IF fault = [config |-> config_id, at |-> "score"]
    THEN [raised |-> "DatabaseError", table |-> scores]
    ELSE [raised |-> "", table |-> [scores EXCEPT ![config_id] = score]]

\* the parameters of DatabaseRepository.upsert_learning_parameter
upsert_learning_parameter_params ==
    {"param_name", "param_value", "effectiveness_score", "config_id"}

\* the keywords _extract_learning_parameters calls it with
upsert_learning_parameter_kwargs ==
    {"parameter_name", "parameter_value", "effectiveness_score",
     "learned_from_config_id"}

\* INSERT ... ON CONFLICT (parameter_name, parameter_value) DO UPDATE
UpsertRow(table, param_name, param_value, effectiveness_score, config_id) ==
    LET key == <<param_name, param_value>>
    IN  IF key \in DOMAIN table
        THEN [k \in DOMAIN table |->
                IF k = key
                THEN [effectiveness_score |-> effectiveness_score,
                      usage_count |-> table[k].usage_count + 1,
                      learned_from_config_id |-> config_id]
                ELSE table[k]]
        ELSE [k \in DOMAIN table \cup {key} |->
                IF k = key
                THEN [effectiveness_score |-> effectiveness_score,
                      usage_count |-> 1,
                      learned_from_config_id |-> config_id]
                ELSE table[k]]

\* a call of upsert_learning_parameter with the given keywords: Python
\* rejects a keyword the function does not have before the body runs
upsert_learning_parameter(table, kwargs, param_name, param_value, effectiveness_score, config_id) ==
    IF ~(kwargs \subseteq upsert_learning_parameter_params)
    THEN [raised |-> "TypeError", table |-> table]
    ELSE [raised |-> "",
          table |-> UpsertRow(table, param_name, param_value,
                              effectiveness_score, config_id)]

\* best_performers
BestPerformers(performance_data) ==
    SelectSeq(performance_data, LAMBDA p : OrZero(p) > Tenths(7))

\* max(p['quality_score'] or 0 for p in best_performers)
MaxQuality(rows) ==
    CHOOSE q \in { OrZero(rows[i]) : i \in DOMAIN rows } :
        \A i \in DOMAIN rows : OrZero(rows[i]) <= q

\* the (param_name, value) pairs in the order the two loops visit them
TargetPairs(config) ==
    [i \in DOMAIN config.target_skills |-> <<"target_skills", config.target_skills[i]>>]
    \o [i \in DOMAIN config.target_roles |-> <<"target_roles", config.target_roles[i]>>]
    \o [i \in DOMAIN config.target_locations |->
            <<"target_locations", config.target_locations[i]>>]

\* the nested loops of _extract_learning_parameters over the pairs left
RECURSIVE PromoteAll(_, _, _, _)
PromoteAll(pairs, table, effectiveness_score, config_id) ==
    IF pairs = <<>> THEN [raised |-> "", table |-> table]
    ELSE Only({ IF r.raised # "" THEN r
                ELSE PromoteAll(Tail(pairs), r.table, effectiveness_score, config_id) :
                r \in { upsert_learning_parameter(table,
                            upsert_learning_parameter_kwargs,
                            Head(pairs)[1], Head(pairs)[2],
                            effectiveness_score, config_id) } })

_extract_learning_parameters(config, performance_data, table) ==
    Only({ IF best_performers = <<>> THEN [raised |-> "", table |-> table]
           ELSE PromoteAll(TargetPairs(config), table,
                           MaxQuality(best_performers), config.config_id) :
           best_performers \in { BestPerformers(performance_data) } })

\* the mean over the rows that have a quality_score
AvgQualityOfScoredRows(performance_data) ==
    SumSeq([i \in DOMAIN performance_data |-> OrZero(performance_data[i])])
        \div Max(1, Len(SelectSeq(performance_data, LAMBDA p : p # <<>>)))
\* sum(p['quality_score'] or 0 for p in performance_data) / len(performance_data)
AvgQuality(performance_data) ==
    SumSeq([i \in DOMAIN performance_data |-> OrZero(performance_data[i])])
        \div Len(performance_data)

\* the try block with the test for an empty history left out
OptimizeTryWithoutSkip(config, history, fault, scores, table) ==
    Only({ IF h.raised # ""
           THEN [raised |-> h.raised, rows |-> 0, score_written |-> <<>>,
                 performance_score |-> scores, learning_parameters |-> table]
           ELSE IF Len(h.rows) = 0
           THEN [raised |-> "ZeroDivisionError", rows |-> 0, score_written |-> <<>>,
                 performance_score |-> scores, learning_parameters |-> table]
           ELSE Only({ IF u.raised # ""
                       THEN [raised |-> u.raised, rows |-> Len(h.rows),
                             score_written |-> <<>>,
                             performance_score |-> scores,
                             learning_parameters |-> table]
                       ELSE Only({ [raised |-> e.raised, rows |-> Len(h.rows),
                                    score_written |-> <<AvgQuality(h.rows)>>,
                                    performance_score |-> u.table,
                                    learning_parameters |-> e.table] :
                                   e \in { _extract_learning_parameters(
                                               config, h.rows, table) } }) :
                       u \in { update_config_performance_score(
                                   scores, config.config_id,
                                   AvgQuality(h.rows), fault) } }) :
           h \in { get_config_performance_history(history, config.config_id, fault) } })

\* the try block of _optimize_single_config
OptimizeTry(config, history, fault, scores, table) ==
    Only({ IF h.raised # ""
           THEN [raised |-> h.raised, rows |-> 0, score_written |-> <<>>,
                 performance_score |-> scores, learning_parameters |-> table]
           ELSE IF h.rows = <<>>
           THEN [raised |-> "", rows |-> 0, score_written |-> <<>>,
                 performance_score |-> scores, learning_parameters |-> table]
           ELSE Only({ IF u.raised # ""
                       THEN [raised |-> u.raised, rows |-> Len(h.rows),
                             score_written |-> <<>>,
                             performance_score |-> scores,
                             learning_parameters |-> table]
                       ELSE Only({ [raised |-> e.raised, rows |-> Len(h.rows),
                                    score_written |-> <<AvgQuality(h.rows)>>,
                                    performance_score |-> u.table,
                                    learning_parameters |-> e.table] :
                                   e \in { _extract_learning_parameters(
                                               config, h.rows, table) } }) :
                       u \in { update_config_performance_score(
                                   scores, config.config_id,
                                   AvgQuality(h.rows), fault) } }) :
           h \in { get_config_performance_history(history, config.config_id, fault) } })

\* _optimize_single_config without its except clause
OptimizeSingleConfigPropagates(config, history, fault, scores, table) ==
    Only({ [raised |-> r.raised, error |-> "", rows |-> r.rows,
            score_written |-> r.score_written,
            performance_score |-> r.performance_score,
            learning_parameters |-> r.learning_parameters] :
           r \in { OptimizeTry(config, history, fault, scores, table) } })

\* _optimize_single_config: whatever the try block raises is logged
_optimize_single_config(config, history, fault, scores, table) ==
    Only({ [raised |-> "", error |-> r.raised, rows |-> r.rows,
            score_written |-> r.score_written,
            performance_score |-> r.performance_score,
            learning_parameters |-> r.learning_parameters] :
           r \in { OptimizeTry(config, history, fault, scores, table) } })

\* optimize_configurations calls made in one behaviour
MaxRuns == 2

OptInit ==
    /\ oPc = "idle"
    /\ oConfigs = <<>>
    /\ oIdx = 0
    /\ oHistory \in [ConfigIds -> HistoryPool]
    /\ oFault \in OptFaults
    /\ performance_score = [c \in ConfigIds |-> 0]
    /\ learning_parameters = <<>>
    /\ oLog = <<>>
    /\ oRaised = ""
    /\ oRuns = 0
    /\ MatchIdle
    /\ ScanIdle
    /\ SchedIdle
    /\ ParamIdle
    /\ RateIdle
    /\ TrigIdle
    /\ sJob = JobPool[1] /\ sConsultant = ConsultantPool[1]
    /\ sJobEmb = <<>> /\ sConsEmb = <<>> /\ sScores = NoScores /\ sPc = "input"

\* optimize_configurations up to its for loop; a failing
\* get_all_scanning_configs is logged by the outer except clause
OptimizeConfigurations ==
    /\ oPc \in {"idle", "done"}
    /\ oRuns < MaxRuns
    /\ oLog' = <<>>
    /\ oRaised' = ""
    /\ IF oFault.at = "configs"
       THEN /\ oPc' = "done"
            /\ oConfigs' = <<>>
            /\ oIdx' = 0
            /\ oRuns' = oRuns + 1
       ELSE /\ oConfigs' \in get_all_scanning_configs(performance_score)
            /\ oPc' = "running"
            /\ oIdx' = 1
            /\ oRuns' = oRuns
    /\ UNCHANGED <<oHistory, oFault, performance_score, learning_parameters>>
    /\ UNCHANGED <<scoreVars, matchVars, scanVars, schedVars, paramVars, rateVars, trigVars>>

\* one iteration of the for loop; an exception that leaves
\* _optimize_single_config is logged by the outer except clause
OptimizeSingleConfig ==
    /\ oPc = "running"
    /\ oIdx <= Len(oConfigs)
    /\ \E r \in { _optimize_single_config(scanning_configs[oConfigs[oIdx]],
                      oHistory, oFault, performance_score, learning_parameters) } :
          /\ performance_score' = r.performance_score
          /\ learning_parameters' = r.learning_parameters
          /\ oLog' = Append(oLog, [config_id |-> oConfigs[oIdx],
                                   rows |-> r.rows,
                                   score_written |-> r.score_written,
                                   error |-> r.error,
                                   raised |-> r.raised])
          /\ IF r.raised # ""
             THEN /\ oPc' = "done"
                  /\ oRuns' = oRuns + 1
                  /\ oIdx' = oIdx
             ELSE /\ oPc' = "running"
                  /\ oRuns' = oRuns
                  /\ oIdx' = oIdx + 1
    /\ UNCHANGED <<oConfigs, oHistory, oFault, oRaised>>
    /\ UNCHANGED <<scoreVars, matchVars, scanVars, schedVars, paramVars, rateVars, trigVars>>

\* the for loop is exhausted: "Configuration optimization completed"
OptimizationCompleted ==
    /\ oPc = "running"
    /\ oIdx > Len(oConfigs)
    /\ oPc' = "done"
    /\ oRuns' = oRuns + 1
    /\ UNCHANGED <<oConfigs, oIdx, oHistory, oFault, performance_score,
                   learning_parameters, oLog, oRaised>>
    /\ UNCHANGED <<scoreVars, matchVars, scanVars, schedVars, paramVars, rateVars, trigVars>>

OptNext == OptimizeConfigurations \/ OptimizeSingleConfig \/ OptimizationCompleted

SpecOpt == OptInit /\ [][OptNext]_vars

----------------------------------------------------------------------------
(* ScannerScheduler._build_scraper_params.  A dict is a function on its    *)
(* keys; a value is None or a list.                                        *)

None == [none |-> TRUE, items |-> <<>>]
List(items) == [none |-> FALSE, items |-> items]
\* bool(value) of None or a list
TruthyValue(v) == ~v.none /\ v.items # <<>>
\* dict.get(key)
DictGet(dct, key) == IF key \in DOMAIN dct THEN dct[key] ELSE None
\* value or []
OrEmptyList(v) == IF TruthyValue(v) THEN v ELSE List(<<>>)
\* line 283 with the override under the configuration
DictUpdateKeepsExisting(dct, other) ==
    [k \in DOMAIN dct \cup DOMAIN other |->
        IF k \in DOMAIN dct THEN dct[k] ELSE other[k]]
\* dict.update(other)
DictUpdate(dct, other) ==
    [k \in DOMAIN dct \cup DOMAIN other |->
        IF k \in DOMAIN other THEN other[k] ELSE dct[k]]

\* the keys of the params literal, lines 271-279
StandardKeys ==
    {"target_skills", "target_roles", "target_locations", "languages",
     "seniority_levels", "onsite_modes", "contract_durations"}

\* source_override: None, or a source_config_overrides row whose
\* parameter_overrides is None or a dict
NoSourceOverride == [none |-> TRUE, parameter_overrides |-> [none |-> TRUE, dict |-> <<>>]]
OverrideRow(po) == [none |-> FALSE, parameter_overrides |-> po]
\* line 282: source_override and source_override.get('parameter_overrides')
HasParameterOverrides(source_override) ==
    /\ ~source_override.none
    /\ ~source_override.parameter_overrides.none
    /\ DOMAIN source_override.parameter_overrides.dict # {}

\* lines 286-287: params['seniority_levels'] = params.pop('levels')
NormaliseLevels(params) ==
    IF "levels" \in DOMAIN params /\ "seniority_levels" \notin DOMAIN params
    THEN [k \in (DOMAIN params \ {"levels"}) \cup {"seniority_levels"} |->
            IF k = "seniority_levels" THEN params["levels"] ELSE params[k]]
    ELSE params

_build_scraper_params(config, source_override) ==
    NormaliseLevels(
        Only({ IF HasParameterOverrides(source_override)
               THEN DictUpdate(params, source_override.parameter_overrides.dict)
               ELSE params :
               params \in { [k \in StandardKeys |-> OrEmptyList(DictGet(config, k))] } }))

----------------------------------------------------------------------------
(* SpecParams: _build_scraper_params applied to one configuration and one  *)
(* source override                                                         *)

\* values of a column of scanning_configs and of an entry of
\* parameter_overrides
ParamValues == { None, List(<<>>), List(<<"senior">>), List(<<"junior", "lead">>) }
\* the columns a configuration row carries besides config_id
ConfigKeySets ==
    { {}, {"target_skills", "seniority_levels"},
      {"languages", "seniority_levels", "onsite_modes"} }
ParamConfigs == UNION { [keys -> ParamValues] : keys \in ConfigKeySets }
\* the keys of a parameter_overrides dict
OverrideKeySets ==
    { {}, {"languages"}, {"levels"}, {"seniority_levels", "levels"},
      {"countries", "target_skills"} }
ParamOverrides ==
    {NoSourceOverride, OverrideRow([none |-> TRUE, dict |-> <<>>])}
    \cup { OverrideRow([none |-> FALSE, dict |-> po]) :
             po \in UNION { [keys -> ParamValues] : keys \in OverrideKeySets } }

ParamInit ==
    /\ bConfig \in ParamConfigs
    /\ bOverride \in ParamOverrides
    /\ bParams = <<>>
    /\ bPc = "input"
    /\ ScanIdle
    /\ SchedIdle
    /\ MatchIdle
    /\ OptIdle
    /\ RateIdle
    /\ TrigIdle
    /\ sJob = JobPool[1] /\ sConsultant = ConsultantPool[1]
    /\ sJobEmb = <<>> /\ sConsEmb = <<>> /\ sScores = NoScores /\ sPc = "input"

\* scheduler.py line 211: scraper_params = self._build_scraper_params(...)
BuildScraperParams ==
    /\ bPc = "input"
    /\ bParams' = _build_scraper_params(bConfig, bOverride)
    /\ bPc' = "built"
    /\ UNCHANGED <<bConfig, bOverride>>
    /\ UNCHANGED <<scoreVars, matchVars, scanVars, schedVars, optVars, rateVars, trigVars>>

ParamNext == BuildScraperParams

SpecParams == ParamInit /\ [][ParamNext]_vars

----------------------------------------------------------------------------
(* BaseScraper.fetch_page: rate limiting and retries.  Time is the event   *)
(* loop's clock in whole seconds.                                          *)

\* scraper instances alive at once
NumScrapers == 2
ScraperInstances == 1..NumScrapers
\* the clock stops here
MaxTime == 10

\* __init__: self.rate_limit_delay = 1.0
rate_limit_delay == 1
\* wait_exponential(multiplier=1, min=4, max=10)
wait_min == 4
wait_max == 10
RECURSIVE Pow2(_)
Pow2(n) == IF n = 0 THEN 1 ELSE 2 * Pow2(n - 1)
\* the wait tenacity inserts after the attempt-th failed attempt
wait_exponential(attempt) == Max(wait_min, Min(wait_max, Pow2(attempt)))

\* lines 57-60: the seconds fetch_page sleeps before it sends the request
RateLimitSleep(current_time, last) ==
    IF current_time - last < rate_limit_delay
    THEN rate_limit_delay - (current_time - last)
    ELSE 0

\* line 69: self.last_request_time is assigned after a response that
\* raise_for_status accepted; a failed request leaves it as it was
LastRequestTime(last, sent, ok) == IF ok THEN sent ELSE last

\* the two latest requests of an instance, after one more
Latest(requests, request) ==
    IF requests = <<>> THEN <<request>>
    ELSE <<requests[Len(requests)], request>>

\* one attempt of fetch_page by instance i: the body of the function, and
\* what tenacity does with its outcome
Attempt(i, ok) ==
    \E sent \in { now + RateLimitSleep(now, last_request_time[i]) } :
        /\ sent <= MaxTime
        /\ now' = sent
        /\ rRequests' = [rRequests EXCEPT
                            ![i] = Latest(@, [time |-> sent, ok |-> ok])]
        /\ last_request_time' = [last_request_time EXCEPT
                                    ![i] = LastRequestTime(@, sent, ok)]
        /\ IF ok
           THEN /\ rPc' = [rPc EXCEPT ![i] = "ready"]
                /\ rAttempt' = [rAttempt EXCEPT ![i] = 0]
                /\ rWake' = [rWake EXCEPT ![i] = 0]
           ELSE IF rAttempt[i] + 1 >= stop_after_attempt
           THEN \* RetryError leaves fetch_page; the adapter catches it
                /\ rPc' = [rPc EXCEPT ![i] = "ready"]
                /\ rAttempt' = [rAttempt EXCEPT ![i] = 0]
                /\ rWake' = [rWake EXCEPT ![i] = 0]
           ELSE /\ rPc' = [rPc EXCEPT ![i] = "retry_wait"]
                /\ rAttempt' = [rAttempt EXCEPT ![i] = @ + 1]
                /\ rWake' = [rWake EXCEPT
                                ![i] = sent + wait_exponential(rAttempt[i] + 1)]

RateInit ==
    /\ now \in 0..2
    /\ last_request_time = [i \in ScraperInstances |-> 0]
    /\ rPc = [i \in ScraperInstances |-> "ready"]
    /\ rAttempt = [i \in ScraperInstances |-> 0]
    /\ rWake = [i \in ScraperInstances |-> 0]
    /\ rRequests = [i \in ScraperInstances |-> <<>>]
    /\ ScanIdle
    /\ SchedIdle
    /\ MatchIdle
    /\ OptIdle
    /\ ParamIdle
    /\ TrigIdle
    /\ sJob = JobPool[1] /\ sConsultant = ConsultantPool[1]
    /\ sJobEmb = <<>> /\ sConsEmb = <<>> /\ sScores = NoScores /\ sPc = "input"

\* an adapter calls fetch_page: the first attempt
FetchPage ==
    /\ \E i \in ScraperInstances, ok \in BOOLEAN :
          /\ rPc[i] = "ready"
          /\ Attempt(i, ok)
    /\ UNCHANGED <<scoreVars, matchVars, scanVars, schedVars, optVars, paramVars, trigVars>>

\* tenacity calls fetch_page again once its wait is over
RetryFetchPage ==
    /\ \E i \in ScraperInstances, ok \in BOOLEAN :
          /\ rPc[i] = "retry_wait"
          /\ now >= rWake[i]
          /\ Attempt(i, ok)
    /\ UNCHANGED <<scoreVars, matchVars, scanVars, schedVars, optVars, paramVars, trigVars>>

\* a second passes
Tick ==
    /\ now < MaxTime
    /\ now' = now + 1
    /\ UNCHANGED <<last_request_time, rPc, rAttempt, rWake, rRequests>>
    /\ UNCHANGED <<scoreVars, matchVars, scanVars, schedVars, optVars, paramVars, trigVars>>

RateNext == FetchPage \/ RetryFetchPage \/ Tick

SpecRate == RateInit /\ [][RateNext]_vars

----------------------------------------------------------------------------
(* Claims about scoring                                                    *)

\* C1 (as claimed): every total computed by _calculate_match_scores lies in
\* [0, 1], for every job, consultant and pair of embedding vectors, the
\* cosine ranging over [-1, 1].  The code does not clamp the cosine, so a
\* negative cosine drives the total below 0.
C1_TotalInUnitInterval ==
    sPc = "scored" => (0 <= sScores.total /\ sScores.total <= FullScale)

----------------------------------------------------------------------------
(* Claims about run_matching                                               *)

\* the scores of the pair (job_id, c): stored embeddings are the backend's
\* vectors, so the pair's scores do not depend on the embedding tables
PairScores(job_id, c) ==
    _calculate_match_scores(JobRow(job_id), ConsultantRow(c),
                            JobBackendEmbedding(job_id), ConsultantBackendEmbedding(c))

\* the pairs of job_id with the consultants of the call whose total reaches
\* min_score, in the consultants' input order
RECURSIVE QualifyingFrom(_, _, _, _)
QualifyingFrom(job_id, consultants, i, min_score) ==
    IF i > Len(consultants) THEN <<>>
    ELSE Only({ (IF sc.total >= min_score
                 THEN << [consultant_id |-> consultants[i], scores |-> sc] >>
                 ELSE <<>>)
                \o QualifyingFrom(job_id, consultants, i + 1, min_score) :
                sc \in { PairScores(job_id, consultants[i]) } })

\* what the claimed contract persists and returns for job_id in this call
ExpectedMatches(job_id) ==
    LET top == Take(SortByTotalDesc(QualifyingFrom(job_id, mConsultants, 1,
                                                   mArgs.min_score)),
                    mArgs.max_results)
    IN  [k \in DOMAIN top |-> [job_id |-> job_id,
                               consultant_id |-> top[k].consultant_id,
                               score |-> top[k].scores.total]]

\* the rows of the match table for job_id
RowsOf(job_id) == { matchTable[k] : k \in { i \in DOMAIN matchTable :
                                             matchTable[i].job_id = job_id } }

\* an exception of the embedding backend or the database, as opposed to one
\* the matching code raises by itself
InjectedFault(raised) == raised \in {"EmbeddingError", "DatabaseError"}

\* C2 (as claimed): for each job run_matching has processed without a
\* backend or database failure, the matches returned for the job are the
\* first max_results qualifying pairs in stable descending order of total,
\* and the match table holds exactly those pairs for the job.  The code
\* raises in _generate_match_reason for every qualifying pair, so nothing is
\* returned or persisted for such a job.
C2_PersistedAreTopQualifying ==
    \A k \in DOMAIN mLog :
        ~InjectedFault(mLog[k].raised) =>
            \E expected \in { ExpectedMatches(mLog[k].job_id) } :
                /\ mLog[k].matches = expected
                /\ RowsOf(mLog[k].job_id) = Range(expected)

\* C3 (as claimed): the match table holds at most one Match per
\* (job_id, consultant_id), and once a call has processed a job without a
\* backend or database failure, every pair the call ranks within max_results
\* has exactly one Match carrying the pair's total, however many calls
\* preceded it.  The code never reaches upsert_match for a qualifying pair.
C3_OneMatchPerPairAfterRerun ==
    /\ \A i, k \in DOMAIN matchTable :
          (matchTable[i].job_id = matchTable[k].job_id
           /\ matchTable[i].consultant_id = matchTable[k].consultant_id) => i = k
    /\ \A k \in DOMAIN mLog :
          ~InjectedFault(mLog[k].raised) =>
              \A m \in Range(ExpectedMatches(mLog[k].job_id)) :
                  Cardinality({ i \in DOMAIN matchTable : matchTable[i] = m }) = 1

\* C4 (as claimed): when a call of run_matching ends, by returning or by an
\* exception, every job of the call has been matched: a job that raised did
\* not keep the later jobs from being processed.  The loop of run_matching
\* has no handler, so the first job that raises ends the call.
C4_EveryJobMatchedDespiteFailure ==
    mPc \in {"returned", "raised"} =>
        \A i \in DOMAIN mJobs : \E k \in DOMAIN mLog : mLog[k].job_id = mJobs[i]

----------------------------------------------------------------------------
(* Claims about the scan cycle                                             *)

\* what the sources of a trace contributed: jobs, and matches
RECURSIVE SumJobsOf(_)
SumJobsOf(trace) ==
    IF trace = <<>> THEN 0 ELSE Head(trace).jobs + SumJobsOf(Tail(trace))
RECURSIVE SumMatchesOf(_)
SumMatchesOf(trace) ==
    IF trace = <<>> THEN 0 ELSE Head(trace).matches + SumMatchesOf(Tail(trace))

\* _scan_with_config is about to return
AtReturn == cPc = "sources" /\ sIdx > Len(enabled_sources)

\* C5: when _scan_with_config returns, every registered source was
\* processed, in order, whatever exceptions the earlier sources raised, and
\* the jobs_found and matches_generated it returns are the sums of what the
\* sources contributed.
C5_SourceFailureIsolated ==
    /\ cPc = "sources" =>
          /\ Len(cTrace) = sIdx - 1
          /\ \A i \in DOMAIN cTrace : cTrace[i].source_name = enabled_sources[i]
    /\ AtReturn =>
          /\ Len(cTrace) = Len(enabled_sources)
          /\ jobs_found = SumJobsOf(cTrace)
          /\ matches_generated = SumMatchesOf(cTrace)

\* C5 witness: a source raised, a later source yielded jobs, and they are
\* in the jobs_found about to be returned.
C5_Witness ==
    /\ AtReturn
    /\ \E i, k \in DOMAIN cTrace :
          /\ i < k
          /\ cTrace[i].error = "ConstructError"
          /\ cTrace[k].jobs > 0
    /\ jobs_found > 0

LogRowsOf(config_id) == { k \in DOMAIN perfLog : perfLog[k].config_id = config_id }

C9_DisabledSourceNotScraped ==
    cPc = "sources" =>
        \A i \in DOMAIN cTrace :
            (cTrace[i].fetch \in {"ok", "exhausted"})
                <=> (OverrideState(active_configs[cIdx], cTrace[i].source_name)
                        # "disabled" /\ cTrace[i].error # "ConstructError")

----------------------------------------------------------------------------
(* Claims about the scheduler                                              *)

\* C8: of each scheduled job at most one instance the scheduler started is
\* executing; every trigger that came due either started an instance or was
\* dropped, a trigger is dropped only while an instance is executing, and a
\* trigger that finds none executing starts one.
C8_AtMostOneInstance ==
    \A j \in ScheduledJobs :
        /\ instances[j] <= 1
        /\ due[j] = started[j] + skipped[j]
        /\ lastEvent[j] = "max_instances" => instances[j] = 1
        /\ lastEvent[j] = "submitted" => instances[j] = 1
        /\ lastEvent[j] = "executed" => instances[j] = 0

\* C8 witness: a trigger of daily_scan was dropped while an instance ran,
\* the instance ended, and the next trigger started a new one.
C8_Witness ==
    /\ skipped["daily_scan"] = 1
    /\ started["daily_scan"] = 2
    /\ instances["daily_scan"] = 1
    /\ lastEvent["daily_scan"] = "submitted"

----------------------------------------------------------------------------
(* Claims about persistence failures                                       *)

\* C11 (as claimed): of a scraped batch in which the upsert of one job
\* raised, every other job is stored and handed to match generation: at most
\* the one job is missing from those stored, and the stored jobs are the
\* matched ones.  upsert_jobs has no handler, so the jobs after the failing
\* one are not stored and none of the batch is matched.
C11_OnlyFailedItemSkipped ==
    \A i \in DOMAIN cTrace :
        cTrace[i].fetch = "ok" =>
            /\ cTrace[i].stored >= cTrace[i].jobs - 1
            /\ cTrace[i].matched = cTrace[i].stored


----------------------------------------------------------------------------
(* Claims about the sub-scores                                             *)

\* C12: scoring a pair with missing inputs gives each affected sub-score its
\* neutral value: cosine 0 when either embedding is missing; skills and
\* language 1.0 when the job requires none and 0.0 when it requires some and
\* the consultant lists none; role 0.5 when neither a seniority pair nor a
\* role pair exists; geo 0.5 when a side has no onsite mode and no location
\* pair exists, and 0.5 plus the location bonus when one does; and every
\* sub-score and the total stay within 0..1.
C12_MissingInputsScoreNeutral ==
    sPc = "scored" =>
        /\ (sJobEmb = <<>> \/ sConsEmb = <<>>) => sScores.cosine = 0
        /\ sJob.skills = <<>> => sScores.skills = Unit
        /\ (sJob.skills # <<>> /\ sConsultant.skills = <<>>) => sScores.skills = 0
        /\ sJob.languages = <<>> => sScores.language = Unit
        /\ (sJob.languages # <<>> /\ sConsultant.languages = <<>>)
               => sScores.language = 0
        /\ ( /\ (sJob.seniority = <<>> \/ sConsultant.seniority = <<>>)
             /\ (sJob.role = <<>> \/ sConsultant.role = <<>>) )
               => sScores.role = Tenths(5)
        /\ (sJob.onsite_mode = "" \/ sConsultant.onsite_mode = "")
               => /\ sScores.geo \in { Tenths(5), Tenths(6), Tenths(8) }
                  /\ ( /\ (sJob.location_city = <<>>
                                \/ sConsultant.location_city = <<>>)
                       /\ (sJob.location_country = <<>>
                                \/ sConsultant.location_country = <<>>) )
                         => sScores.geo = Tenths(5)
        /\ \A f \in {"cosine", "skills", "role", "language", "geo"} :
               sScores[f] \in 0..Unit
        /\ sScores.total \in 0..FullScale

\* C12 witness: a consultant with nothing but a profile row, and no
\* embeddings, has been scored against the complete job
C12_Witness ==
    /\ sPc = "scored"
    /\ sJob = JobPool[1]
    /\ sConsultant = Blank(ConsultantPool[1], GapFields)
    /\ sJobEmb = <<>>
    /\ sScores.cosine = 0
    /\ sScores.skills = 0
    /\ sScores.language = 0
    /\ sScores.role = Tenths(5)
    /\ sScores.geo = Tenths(5)


----------------------------------------------------------------------------
(* Claims about the adaptive optimizer                                     *)

\* C13: optimizing a configuration whose performance history of the last 30
\* days is empty changes neither any performance score nor the learned
\* parameters, and no error is raised or logged for it.
C13_EmptyHistoryNoUpdate ==
    [][ ( /\ oPc = "running"
          /\ oIdx <= Len(oConfigs)
          /\ oHistory[oConfigs[oIdx]] = <<>>
          /\ oFault # [config |-> oConfigs[oIdx], at |-> "history"] )
        => /\ performance_score' = performance_score
           /\ learning_parameters' = learning_parameters
           /\ Len(oLog') = Len(oLog) + 1
           /\ oLog'[Len(oLog')].error = ""
           /\ oLog'[Len(oLog')].raised = ""
           /\ oRaised' = "" ]_vars

\* C13 witness: a run has ended in which a configuration without history was
\* passed over silently while another one had its score written
C13_Witness ==
    /\ oPc = "done"
    /\ \E i, k \in DOMAIN oLog :
          /\ oHistory[oLog[i].config_id] = <<>>
          /\ oLog[i].rows = 0
          /\ oLog[i].error = ""
          /\ oLog[k].rows > 0
          /\ performance_score[oLog[k].config_id] > 0

\* the configurations that promote a (parameter_name, value) pair in a run:
\* those reached without a failing call whose history has a best performer
HasBestPerformer(c) == BestPerformers(oHistory[c]) # <<>>
TargetPairSet(c) == Range(TargetPairs(scanning_configs[c]))
Promoters(pair) ==
    { c \in ConfigIds : /\ oFault.at # "configs"
                        /\ oFault.config # c
                        /\ HasBestPerformer(c)
                        /\ pair \in TargetPairSet(c) }

\* C14 (as claimed): after a run the learned parameters are exactly the
\* target_skills / target_roles / target_locations values of the configurations
\* that have a log entry with quality_score > 0.7; each carries the highest
\* quality_score among those entries of the configuration it was learned
\* from, and its usage counter counts its promotions.
C14_BestPerformersPromoted ==
    oPc = "done" =>
        /\ DOMAIN learning_parameters
               = { pair \in UNION { TargetPairSet(c) : c \in ConfigIds } :
                     Promoters(pair) # {} }
        /\ \A pair \in DOMAIN learning_parameters :
              /\ learning_parameters[pair].usage_count
                     = oRuns * Cardinality(Promoters(pair))
              /\ learning_parameters[pair].learned_from_config_id \in Promoters(pair)
              /\ learning_parameters[pair].effectiveness_score
                     = MaxQuality(BestPerformers(
                           oHistory[learning_parameters[pair].learned_from_config_id]))

\* C15: an exception while one configuration is optimized is contained: the
\* loop visits every configuration, in order; every configuration with
\* history whose own calls did not fail has the mean quality_score as its
\* performance score; and optimize_configurations raises nothing.
C15_OptimizerFailureContained ==
    oPc = "done" =>
        /\ oRaised = ""
        /\ oFault.at # "configs" =>
              /\ Len(oLog) = Len(oConfigs)
              /\ \A i \in DOMAIN oLog :
                    oLog[i].config_id = oConfigs[i] /\ oLog[i].raised = ""
              /\ \A c \in ConfigIds :
                    (oFault.config # c /\ oHistory[c] # <<>>)
                        => performance_score[c] = AvgQuality(oHistory[c])

\* C15 witness: the first configuration of a run failed and a later one was
\* optimized without error
C15_Witness ==
    /\ oPc = "done"
    /\ Len(oLog) = Len(oConfigs)
    /\ Len(oLog) > 1
    /\ oLog[1].error = "DatabaseError"
    /\ \E k \in DOMAIN oLog :
          /\ k > 1
          /\ oLog[k].rows > 0
          /\ oLog[k].error = ""
          /\ performance_score[oLog[k].config_id] > 0


----------------------------------------------------------------------------
(* Claims about the arguments of run_matching                              *)

\* C16 (as claimed): a call given a list of job ids, of any size, works on
\* exactly the ids of the list that resolve, and a call given a list of
\* consultant ids considers exactly those that resolve; only a call not given
\* a list works on the most recent jobs, respectively on the active
\* consultants.
C16_ExplicitSetsRespected ==
    mPc # "idle" =>
        /\ mJobs = IF mArgs.job_ids.given
                   THEN SelectSeq2(mArgs.job_ids.ids, JobIds)
                   ELSE Take(Descending(1, NumJobs), DefaultLimit)
        /\ IF mArgs.consultant_ids.given
           THEN mConsultants = SelectSeq2(mArgs.consultant_ids.ids, ConsultantIds)
           ELSE Range(mConsultants) = { c \in ConsultantIds : ConsultantActive(c) }
        /\ \A k \in DOMAIN mLog : mLog[k].job_id \in Range(mJobs)


\* the reference rule for one required skill: 1.0 for an exact match anywhere
\* in the consultant's list, else 0.8 for a fuzzy match anywhere, else 0
CreditByRule(job_skill, consultant_skills_lower) ==
    IF \E i \in DOMAIN consultant_skills_lower :
           consultant_skills_lower[i] = job_skill THEN 10
    ELSE IF \E i \in DOMAIN consultant_skills_lower :
           RatioAbove08(job_skill, consultant_skills_lower[i]) THEN 8
    ELSE 0
SkillsByRule(job_skills, consultant_skills) ==
    IF job_skills = <<>> THEN Unit
    ELSE IF consultant_skills = <<>> THEN 0
    ELSE Min(Unit,
             (SumSeq([i \in DOMAIN job_skills |->
                        CreditByRule(NormList(job_skills)[i],
                                     NormList(consultant_skills))])
              * (Unit \div 10)) \div Len(job_skills))

\* C17 (as claimed): the skills sub-score of every pair of skill lists is the
\* reference rule's: a required skill scores by its best match in the
\* consultant's list, whatever the order of that list.
C17_SkillsFollowReferenceRule ==
    sPc = "scored" => sScores.skills = SkillsByRule(sJob.skills, sConsultant.skills)


\* the buckets a seniority falls in, by keyword
Buckets(seniority) ==
    { b \in {"senior", "mid", "junior"} :
        \E i \in DOMAIN (CASE b = "senior" -> senior_terms
                            [] b = "mid" -> mid_terms
                            [] OTHER -> junior_terms) :
            Contains(Lower(seniority),
                     (CASE b = "senior" -> senior_terms
                        [] b = "mid" -> mid_terms
                        [] OTHER -> junior_terms)[i]) }
RoleByRule(job, consultant) ==
    IF job.seniority # <<>> /\ consultant.seniority # <<>>
    THEN IF Lower(job.seniority) = Lower(consultant.seniority) THEN Tenths(10)
         ELSE IF Buckets(job.seniority) \cap Buckets(consultant.seniority) # {}
         THEN Tenths(9)
         ELSE IF {"senior", "mid"} \in
                    { {a, b} : a \in Buckets(job.seniority),
                               b \in Buckets(consultant.seniority) }
         THEN Tenths(6)
         ELSE Tenths(3)
    ELSE IF job.role # <<>> /\ consultant.role # <<>>
    THEN IF Lower(job.role) = Lower(consultant.role) THEN Tenths(8) ELSE Tenths(5)
    ELSE Tenths(5)

\* C18: the role sub-score of every pair follows the bucket rule: with a
\* seniority on both sides 1.0 for equal strings (ignoring case), 0.9 for a
\* shared bucket, 0.6 for senior against mid in either direction, else 0.3;
\* without a seniority on some side 0.8 for equal roles (ignoring case), 0.5
\* for different roles, and 0.5 when a role is missing too.
C18_RoleFollowsBucketRule ==
    sPc = "scored" => sScores.role = RoleByRule(sJob, sConsultant)

\* C18 witness: 'Senior Architect' has been scored against 'Lead Engineer'
C18_Witness ==
    /\ sPc = "scored"
    /\ sJob.seniority = <<"S","e","n","i","o","r"," ","A","r","c","h","i","t","e","c","t">>
    /\ sConsultant.seniority = <<"L","e","a","d"," ","E","n","g","i","n","e","e","r">>
    /\ sScores.role = Tenths(9)


\* the regional clusters a city is listed in
ClustersOf(city) ==
    { swedish_regions[i].region : i \in { k \in DOMAIN swedish_regions :
                                             InList(Lower(city), swedish_regions[k].cities) } }
\* how close two locations are: 3 the same city, 2 the same regional cluster,
\* 1 the same country, 0 otherwise
Closeness(job, consultant) ==
    IF /\ job.location_city # <<>> /\ consultant.location_city # <<>>
       /\ Lower(job.location_city) = Lower(consultant.location_city) THEN 3
    ELSE IF /\ job.location_city # <<>> /\ consultant.location_city # <<>>
            /\ ClustersOf(job.location_city) \cap ClustersOf(consultant.location_city) # {}
    THEN 2
    ELSE IF /\ job.location_country # <<>> /\ consultant.location_country # <<>>
            /\ Lower(job.location_country) = Lower(consultant.location_country) THEN 1
    ELSE 0
\* the base of the claimed rule
BaseByRule(job_mode, consultant_mode) ==
    IF job_mode = "" \/ consultant_mode = "" THEN Tenths(5)
    ELSE IF "remote" \in {job_mode, consultant_mode} THEN Tenths(9)
    ELSE IF "hybrid" \in {job_mode, consultant_mode} THEN Tenths(7)
    ELSE IF job_mode = consultant_mode THEN Tenths(8)
    ELSE Tenths(3)
GeoByRule(job, consultant) ==
    Min(Unit, BaseByRule(job.onsite_mode, consultant.onsite_mode)
              + Tenths(Closeness(job, consultant)))

\* C19 (as claimed): the geo sub-score of every pair is min(1.0, base +
\* bonus), the base by the onsite modes (0.9 remote on a side, 0.7 hybrid
\* against hybrid or onsite whichever side is the job, 0.8 another equal
\* pair, 0.3 a mismatch, 0.5 a missing mode) and the bonus by the locations
\* (0.3 city, 0.2 cluster, 0.1 country), also on top of the remote base.
C19_GeoIsBasePlusBonus ==
    sPc = "scored" => sScores.geo = GeoByRule(sJob, sConsultant)

\* C20: with the onsite modes of job and consultant held fixed, a consultant
\* whose location is at least as close to the job's (same city, then same
\* regional cluster, then same country, then none of these) gets at least
\* the geo score of the scored consultant.
C20_GeoMonotonicInCloseness ==
    sPc = "scored" =>
        \A other \in GeoConsultants :
            ( /\ other.onsite_mode = sConsultant.onsite_mode
              /\ Closeness(sJob, other) >= Closeness(sJob, sConsultant) )
                => _calculate_geo_match(sJob, other) >= sScores.geo

\* C20 witness: a consultant in the job's regional cluster has been scored
\* 0.9, between the 1.0 of one in the job's city and the 0.8 of one who is
\* only in the job's country
C20_Witness ==
    /\ sPc = "scored"
    /\ sJob.onsite_mode = "hybrid"
    /\ sConsultant.onsite_mode = "onsite"
    /\ Closeness(sJob, sConsultant) = 2
    /\ sScores.geo = Tenths(9)
    /\ \E nearer, farther \in GeoConsultants :
          /\ nearer.onsite_mode = "onsite"
          /\ farther.onsite_mode = "onsite"
          /\ Closeness(sJob, nearer) = 3
          /\ Closeness(sJob, farther) = 1
          /\ _calculate_geo_match(sJob, nearer) = Unit
          /\ _calculate_geo_match(sJob, farther) = Tenths(8)


----------------------------------------------------------------------------
(* Claims about re-scoring and embeddings                                  *)

----------------------------------------------------------------------------
(* Claims about the steps of one configuration scan                        *)

\* the sources of the current configuration are visited in the order of
\* enabled_sources
SourcesInRegistrationOrder ==
    /\ Len(cTrace) <= Len(enabled_sources)
    /\ \A i \in DOMAIN cTrace : cTrace[i].source_name = enabled_sources[i]

----------------------------------------------------------------------------
(* Claims about the parameters handed to a source adapter                  *)

\* the parameter_overrides that apply: the override's dict, empty when there
\* is no override or it carries none
AppliedOverrides ==
    IF bOverride.none \/ bOverride.parameter_overrides.none
    THEN <<>>
    ELSE bOverride.parameter_overrides.dict

----------------------------------------------------------------------------
(* Claims about what a configuration scan matches and records              *)

\* C24 (as claimed): in a configuration scan every source whose jobs were
\* all stored has matching run for exactly those stored jobs and then has
\* its success rate updated (the update does not raise); and every row of
\* the performance log carries quality_score = matches_generated /
\* max(jobs_found, 1), 0 when jobs_found = 0.  The matching call names a
\* method the service does not define and the update passes five arguments
\* to a method of three, so neither happens.
C24_StoredJobsMatchedAndRateUpdated ==
    /\ \A i \in DOMAIN cTrace :
          (cTrace[i].jobs > 0 /\ cTrace[i].stored = cTrace[i].jobs) =>
              /\ cTrace[i].matched = cTrace[i].stored
              /\ JobsMatchingRanFor(cTrace[i].matched) = cTrace[i].stored
              /\ cTrace[i].error = ""
    /\ \A k \in DOMAIN perfLog :
          perfLog[k].quality_score =
              IF perfLog[k].jobs_found = 0 THEN <<0, 1>>
              ELSE <<perfLog[k].matches_generated, Max(perfLog[k].jobs_found, 1)>>

----------------------------------------------------------------------------
(* Claims about the performance score the optimizer writes                 *)

\* the sum of the quality_score values of a history, NULL counting as 0
QualitySum(rows) == SumSeq([i \in DOMAIN rows |-> OrZero(rows[i])])

\* C25: in one optimizer run, a configuration that has performance rows in
\* the window, and whose two repository calls do not fail, is visited once
\* and has its performance score written exactly once, the value being the
\* arithmetic mean of the rows' quality_score (NULL counting as 0); this is
\* so whether or not the promotion that follows raised
C25_MeanQualityWrittenOnce ==
    \A k \in DOMAIN oLog :
        /\ \A j \in DOMAIN oLog : oLog[j].config_id = oLog[k].config_id => j = k
        /\ (oHistory[oLog[k].config_id] # <<>> /\ oFault.config # oLog[k].config_id) =>
              /\ Len(oLog[k].score_written) = 1
              /\ oLog[k].score_written[1] * Len(oHistory[oLog[k].config_id])
                    = QualitySum(oHistory[oLog[k].config_id])
              /\ performance_score[oLog[k].config_id] = oLog[k].score_written[1]

\* C25 witness: a configuration with the rows NULL and 1.0 has had 0.5
\* written although its promotion raised
C25_Witness ==
    \E k \in DOMAIN oLog :
        /\ oHistory[oLog[k].config_id] = << <<>>, <<Tenths(10)>> >>
        /\ oLog[k].error = "TypeError"
        /\ oLog[k].score_written = <<Tenths(5)>>
        /\ performance_score[oLog[k].config_id] = Tenths(5)

----------------------------------------------------------------------------
(* Claims about the match reason                                           *)

\* C26 (as claimed): for every job of a call and every consultant of the
\* call whose total reaches min_score, _generate_match_reason returns a
\* MatchReason, so the job's scoring is not ended by an exception of the
\* reason's generation.  The function reads job.hourly_rate_max, which Job
\* does not have, and raises for every such pair.
C26_QualifyingPairHasMatchReason ==
    \A k \in DOMAIN mLog :
        (\E c \in Range(mConsultants) :
            PairScores(mLog[k].job_id, c).total >= mArgs.min_score)
        => mLog[k].raised \notin {"AttributeError", "ValidationError"}

----------------------------------------------------------------------------
(* Claims about the embedding tables                                       *)

\* a job / consultant with a stored embedding in the table
JobHasEmbedding(store, job_id) == Truthy(get_embedding(store, job_id))
ConsultantHasEmbedding(store, c) == Truthy(get_embedding(store, c))

\* C27: in every step, an entity that has a stored embedding keeps it; and
\* in the scoring of a job, an embedding is created only for the job or a
\* consultant that had none stored, and is in the table right after; when
\* the scoring went through, the job and every consultant of the call have
\* a stored embedding; and when they all had one before, none is created
C27_EmbeddingsCreatedOnceAndKept ==
    [][ /\ \A j \in JobIds :
              JobHasEmbedding(jobEmbStore, j) => jobEmbStore'[j] = jobEmbStore[j]
        /\ \A c \in ConsultantIds :
              ConsultantHasEmbedding(consEmbStore, c) => consEmbStore'[c] = consEmbStore[c]
        /\ Len(mLog') = Len(mLog) + 1 =>
              LET done == mLog'[Len(mLog')]
              IN  /\ done.created.job =>
                        /\ ~JobHasEmbedding(jobEmbStore, done.job_id)
                        /\ get_embedding(jobEmbStore', done.job_id)
                              = JobBackendEmbedding(done.job_id)
                  /\ \A i \in DOMAIN done.created.consultants :
                        /\ ~ConsultantHasEmbedding(consEmbStore, done.created.consultants[i])
                        /\ get_embedding(consEmbStore', done.created.consultants[i])
                              = ConsultantBackendEmbedding(done.created.consultants[i])
                        /\ \A k \in DOMAIN done.created.consultants :
                              done.created.consultants[k] = done.created.consultants[i]
                                  => k = i
                  /\ done.raised = "" =>
                        /\ JobHasEmbedding(jobEmbStore', done.job_id)
                        /\ \A c \in Range(mConsultants) :
                              ConsultantHasEmbedding(consEmbStore', c)
                  /\ (/\ JobHasEmbedding(jobEmbStore, done.job_id)
                      /\ \A c \in Range(mConsultants) :
                            ConsultantHasEmbedding(consEmbStore, c)) =>
                        done.created = [job |-> FALSE, consultants |-> <<>>]
      ]_vars

\* C27 witness: a job was scored against two consultants without any
\* embedding being created, every one of the three being stored
C27_Witness ==
    /\ mLog # <<>>
    /\ mLog[Len(mLog)].raised = ""
    /\ mLog[Len(mLog)].created = [job |-> FALSE, consultants |-> <<>>]
    /\ Len(mConsultants) = 2
    /\ JobHasEmbedding(jobEmbStore, mLog[Len(mLog)].job_id)
    /\ \A c \in Range(mConsultants) : ConsultantHasEmbedding(consEmbStore, c)

----------------------------------------------------------------------------
(* Claims about the spacing of requests                                    *)

\* C28 (as claimed): any two consecutive requests of one scraper instance
\* are at least rate_limit_delay apart, whether the earlier one succeeded
\* or failed.  The time of a failed request is not recorded, so the request
\* that follows a call which exhausted its retries is sent at once.
C28_RequestsSpacedByDelay ==
    \A i \in DOMAIN rRequests :
        Len(rRequests[i]) = 2 =>
            rRequests[i][2].time - rRequests[i][1].time >= rate_limit_delay

----------------------------------------------------------------------------
(* Claims about manual scans                                               *)

\* C29 (as claimed): at most one scan cycle is in progress at any time,
\* the instances of daily_scan the scheduler started and the manual
\* trigger_scan_now calls counted together.  trigger_scan_now awaits the
\* scan past the executor and tests nothing, so a manual scan starts while
\* a scheduled one runs.
C29_AtMostOneScanInProgress ==
    instances["daily_scan"] + manualScans <= 1

----------------------------------------------------------------------------
(* Claims about a manual scan of one configuration                         *)

\* C30: after trigger_scan_now was called with a config_id, only that
\* configuration has been scanned, at most once, and no row has been
\* written to the performance log; when the id resolves to no
\* configuration nothing was scanned and the call returned without an
\* error.  Called without a config_id it runs the daily cycle: the active
\* configurations are attempted in order, and all of them once it is done.
C30_ManualScanOnlyNamedConfig ==
    tConfigId.called =>
        IF tConfigId.config_id # 0
        THEN /\ cPc \in {"manual", "manual_done", "manual_raised"}
             /\ perfLog = <<>>
             /\ cResults = <<>>
             /\ Len(cAttempted) <= 1
             /\ \A i \in DOMAIN cAttempted : cAttempted[i] = tConfigId.config_id
             /\ tConfigId.config_id \notin ConfigIds =>
                    /\ cPc = "manual_done"
                    /\ cAttempted = <<>>
                    /\ cTrace = <<>>
             /\ (tConfigId.config_id \in ConfigIds /\ cPc = "manual_done") =>
                    /\ cAttempted = <<tConfigId.config_id>>
                    /\ Len(cTrace) = Len(enabled_sources)
        ELSE /\ cPc \in {"loop", "sources", "done", "failed"}
             /\ Len(cAttempted) <= Len(active_configs)
             /\ \A i \in DOMAIN cAttempted : cAttempted[i] = active_configs[i]
             /\ cPc = "done" => cAttempted = active_configs

\* C30 witness: the manual scan of configuration 2 has returned; its last
\* source yielded jobs, and the performance log is empty
C30_Witness ==
    /\ tConfigId = [called |-> TRUE, config_id |-> 2]
    /\ cPc = "manual_done"
    /\ cAttempted = <<2>>
    /\ jobs_found > 0
    /\ cTrace[Len(cTrace)].jobs > 0
    /\ perfLog = <<>>

============================================================================
